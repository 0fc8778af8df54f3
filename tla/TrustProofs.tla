---------------------------- MODULE TrustProofs ----------------------------
(***************************************************************************)
(* What holds of the components of Trust for any number of correspondents, *)
(* envelopes, drafts and keys: the work a stranger does counts once, a     *)
(* directory is current and never rolls back, nothing found is stale,      *)
(* what is opened is what was composed, an address is routed to a server   *)
(* that has it, and the proofs of the transparency log verify and show     *)
(* every auditor one log. Each is proved of its component's own            *)
(* specification; in Trust the other components leave it alone.            *)
(***************************************************************************)
EXTENDS DeviceDirectory, Transparency, Discovery, Envelopes, Challenges, SequenceTheorems, WellFoundedInduction, TLAPS

\* A sequence, whatever its elements.
IsSequence(s) == Len(s) \in Nat /\ s = [i \in 1..Len(s) |-> s[i]]

-----------------------------------------------------------------------------
(* First contact *)

PoWTypeOK ==
  /\ powClock \in Nat
  /\ IsSequence(challenges) /\ IsSequence(admitted) /\ IsSequence(forgotten)
  /\ DOMAIN ledger \subseteq DOMAIN challenges
  /\ \A s \in solutions : s.id \in DOMAIN challenges

\* A challenge's binding is the hash of the envelope it was issued for.
BoundToEnvelope ==
  \A id \in DOMAIN challenges :
    LET c == challenges[id] IN
    c.for \in FirstContacts /\ c.prefix.binding = BindingHash(c.for) /\ c.expires \in Nat

\* An admission was for a challenge that was good for it, and that can not be
\* redeemed again: the ledger has it as redeemed, or not at all.
Admitted ==
  \A i \in DOMAIN admitted :
    LET a == admitted[i] IN
    /\ a.id \in DOMAIN challenges
    /\ a.envelope = challenges[a.id].for /\ a.at < challenges[a.id].expires
    /\ challenges[a.id].difficulty <= MaxPoWDifficulty /\ a.zeros >= challenges[a.id].difficulty
    /\ a.id \in DOMAIN ledger => ledger[a.id]

AdmittedOnce == \A i, j \in DOMAIN admitted : admitted[i].id = admitted[j].id => i = j

\* A challenge that is good is in the ledger, unless a restart lost it.
Remembered ==
  \A id \in DOMAIN challenges :
    Expired(id) \/ id \in DOMAIN ledger \/ \E i \in DOMAIN forgotten : id \in forgotten[i]

WorkInv == PoWTypeOK /\ BoundToEnvelope /\ Admitted /\ AdmittedOnce /\ Remembered

-----------------------------------------------------------------------------
(* Directories *)

\* What addDevice and the storage it filled let into a directory.
SoundDevices(devices) ==
  \A e \in devices :
    /\ e.device_id # NoKey /\ e.device_public_key # NoKey
    /\ \A f \in devices : e.device_id = f.device_id => e = f

\* The directories that were current, in order: by start, then by revision.
IssuedInOrder ==
  /\ IsSequence(issued) /\ starts \in Nat /\ directory.revision \in Nat
  /\ \A i \in DOMAIN issued :
       /\ issued[i].start \in Nat /\ issued[i].dir.revision \in Nat
       /\ issued[i].start <= starts
       /\ issued[i].start = starts => issued[i].dir.revision <= directory.revision
  /\ \A i, j \in DOMAIN issued :
       i < j => /\ issued[i].start <= issued[j].start
                /\ issued[i].start = issued[j].start => issued[i].dir.revision < issued[j].dir.revision

\* What a correspondent remembers is the revision of what it accepted last.
HighestSeen ==
  /\ view \in [Correspondents -> Nat] /\ highest \in [Correspondents -> Int]
  /\ \A c \in Correspondents :
       IF view[c] = 0 THEN highest[c] = -1
       ELSE view[c] \in DOMAIN issued /\ highest[c] = issued[view[c]].dir.revision

DirectoryState ==
  [up |-> directory.up, devices |-> directory.devices,
   revision |-> directory.revision, current |-> directory.current]

DirInv ==
  directory = DirectoryState /\ SoundDevices(directory.devices)
    /\ IssuedInOrder /\ HighestSeen /\ PublishedIsCurrent

-----------------------------------------------------------------------------
(* Discovery *)

ResolveCall ==
  [at : {"idle", "configuration headers", "configuration body", "domain_keys headers", "domain_keys body",
         "resolved", "failed"},
   since : Nat, key : Nat, timer : BOOLEAN]

KeyInv ==
  /\ clock \in Nat
  /\ signingKey \in [signing : Nat, key_id : Nat]
  /\ call \in ResolveCall
  /\ call.since <= signingKey.signing
  /\ call.at = "resolved" => call.key \in call.since..signingKey.signing
  /\ \A r \in answers : r.ttl \in Int
  /\ entry \in [expiresAt : Nat, putAt : Nat, ttl : Int]
  /\ entry # NoEntry => /\ entry.ttl >= 0 /\ entry.putAt <= clock
                        /\ entry.expiresAt = IF entry.ttl > 0 THEN entry.putAt + entry.ttl ELSE 0
  /\ served.ttl # 0 => served.age <= served.ttl

-----------------------------------------------------------------------------
(* Envelopes *)

EnvelopeFields ==
  {"id", "algorithm", "key_id", "length", "expires", "padding", "brief", "enclosure",
   "brief_recipients", "enclosure_recipients", "signature"}

\* What one composition makes of a draft, as far as a recipient can tell.
BriefOf(env, d) ==
  /\ env.brief = AEADSeal(<<"brief", d.n>>, d.brief, d.id)
  /\ env.brief_recipients = [r \in d.briefRecipients |-> Wrap(d.suite, r, <<"brief", d.n>>)]
EnclosureOf(env, d) ==
  /\ env.enclosure = AEADSeal(<<"enclosure", d.n>>, d.enclosure, d.id)
  /\ env.enclosure_recipients = [r \in d.enclosureRecipients |-> Wrap(d.suite, r, <<"enclosure", d.n>>)]

\* Each half of an envelope was sealed for its recipients by one composition,
\* and a signature covers one composition, however the relay mixed them.
Sealed(env) ==
  /\ DOMAIN env = EnvelopeFields
  /\ \E d \in Drafts : BriefOf(env, d)
  /\ \E d \in Drafts : EnclosureOf(env, d)
  /\ env.signature = NoValue \/
       \E d \in Drafts : LET covered == env.signature.over[2] IN BriefOf(covered, d) /\ EnclosureOf(covered, d)

MailInv ==
  /\ mailClock \in Nat
  /\ DOMAIN desk = {"draft", "env", "padded", "submitted", "due"}
  /\ desk # NoDesk => desk.draft \in Drafts /\ Sealed(desk.env)
  /\ \A env \in wire : Sealed(env)
  /\ lookup # NoEnvelope => Sealed(lookup)
  /\ OpenedAsComposed

-----------------------------------------------------------------------------
(* Sequences and minima *)

\* The empty sequence is one.
LEMMA EmptyIsSequence == IsSequence(<<>>) /\ Len(<<>>) = 0
BY EmptySeq DEF IsSequence

\* Append adds an element at the end and keeps the others in their places.
LEMMA Appended ==
  ASSUME NEW s, IsSequence(s), NEW e
  PROVE  LET t == Append(s, e) IN
         /\ IsSequence(t) /\ Len(t) = Len(s) + 1
         /\ DOMAIN s = 1..Len(s) /\ DOMAIN t = 1..(Len(s) + 1)
         /\ \A i \in 1..Len(s) : t[i] = s[i]
         /\ t[Len(s) + 1] = e
<1> DEFINE S == {s[i] : i \in 1..Len(s)} \cup {e}
           t == Append(s, e)
<1>1. s \in Seq(S) /\ DOMAIN s = 1..Len(s)
  <2>1. s \in [1..Len(s) -> S] /\ Len(s) \in Nat /\ DOMAIN s = 1..Len(s)
    BY DEF IsSequence
  <2> HIDE DEF S
  <2> QED
    BY <2>1
<1>2. e \in S
  OBVIOUS
<1> HIDE DEF S
<1>3. /\ t \in Seq(S) /\ Len(t) = Len(s) + 1
      /\ \A i \in 1..Len(s) : t[i] = s[i]
      /\ t[Len(s) + 1] = e
  BY <1>1, <1>2, AppendProperties
<1>4. IsSequence(t) /\ DOMAIN t = 1..Len(t)
  <2> HIDE DEF t
  <2>1. Len(t) \in Nat /\ t \in [1..Len(t) -> S]
    BY <1>3
  <2> QED
    BY <2>1 DEF IsSequence
<1> QED
  BY <1>1, <1>3, <1>4

\* A nonempty set of naturals has a least element, and Min is it.
LEMMA Least ==
  ASSUME NEW S \in SUBSET Nat, S # {}
  PROVE  Min(S) \in S /\ \A y \in S : Min(S) <= y
<1> DEFINE Below == {p \in Nat \X Nat : p[1] < p[2]}
<1>1. IsWellFoundedOn(Below, Nat)
  BY NatLessThanWellFounded DEF OpToRel
<1>2. \A x, y \in Nat : y < x => <<y, x>> \in Below
  OBVIOUS
<1> HIDE DEF Below
<1>3. PICK x \in S : \A y \in S : ~(<<y, x>> \in Below)
  BY <1>1, WFMin
<1>4. ASSUME NEW y \in S PROVE x <= y
  <2>1. x \in Nat /\ y \in Nat
    OBVIOUS
  <2>2. ~(<<y, x>> \in Below)
    BY <1>3, Zenon
  <2>3. ~(y < x)
    BY <1>2, <2>1, <2>2, Zenon
  <2> QED
    BY <2>1, <2>3
<1> QED
  BY <1>4 DEF Min

-----------------------------------------------------------------------------
(* The work a stranger does counts once *)

\* A step that issues nothing and admits nothing only has to keep the ledger:
\* it drops entries that have expired or that a restart lost, and takes no mark back.
LEMMA LedgerStep ==
  ASSUME WorkInv, UNCHANGED <<challenges, admitted>>,
         powClock' \in Nat, powClock' >= powClock,
         DOMAIN ledger' \subseteq DOMAIN ledger,
         \A id \in DOMAIN ledger' : ledger[id] => ledger'[id],
         \A s \in solutions' : s.id \in DOMAIN challenges,
         IsSequence(forgotten'),
         \A i \in DOMAIN forgotten : i \in DOMAIN forgotten' /\ forgotten'[i] = forgotten[i],
         \A id \in DOMAIN ledger \ DOMAIN ledger' :
           Expired(id) \/ \E i \in DOMAIN forgotten' : id \in forgotten'[i]
  PROVE  WorkInv'
<1>1. PoWTypeOK' /\ BoundToEnvelope' /\ AdmittedOnce'
  BY DEF WorkInv, PoWTypeOK, BoundToEnvelope, AdmittedOnce
<1>2. Admitted'
  BY DEF WorkInv, Admitted, PoWTypeOK
<1>3. \A id \in DOMAIN challenges : Expired(id) => Expired(id)'
  BY DEF Expired, WorkInv, PoWTypeOK, BoundToEnvelope
<1>4. Remembered'
  <2> SUFFICES ASSUME NEW id \in DOMAIN challenges, ~Expired(id)', id \notin DOMAIN ledger'
               PROVE  \E i \in DOMAIN forgotten' : id \in forgotten'[i]
    BY DEF Remembered
  <2>1. ~Expired(id)
    BY <1>3
  <2>2. CASE id \in DOMAIN ledger
    BY <2>1, <2>2
  <2>3. CASE \E i \in DOMAIN forgotten : id \in forgotten[i]
    BY <2>3
  <2> QED
    BY <2>1, <2>2, <2>3 DEF WorkInv, Remembered
<1> QED
  BY <1>1, <1>2, <1>4 DEF WorkInv

\* issueChallenge adds a challenge that has not been redeemed.
LEMMA IssueKeepsWork ==
  ASSUME WorkInv, NEW e \in FirstContacts, NEW d, IssueChallenge(e, d)
  PROVE  WorkInv'
<1> DEFINE n == Len(challenges) + 1
           c == [prefix |-> [random |-> n, binding |-> BindingHash(e)], for |-> e,
                 difficulty |-> d, expires |-> powClock + ChallengeTTL]
           kept == IF powClock - lastSweep >= SweepInterval THEN Swept(ledger) ELSE ledger
<1>1. /\ IsSequence(challenges') /\ DOMAIN challenges = 1..Len(challenges) /\ Len(challenges) \in Nat
      /\ DOMAIN challenges' = 1..n
      /\ \A i \in DOMAIN challenges : challenges'[i] = challenges[i]
      /\ challenges'[n] = c
  <2>1. IsSequence(challenges) /\ challenges' = Append(challenges, c)
    BY DEF WorkInv, PoWTypeOK, IssueChallenge
  <2> HIDE DEF c
  <2> QED
    BY <2>1, Appended DEF IsSequence
<1>2. n \notin DOMAIN challenges /\ n \in DOMAIN challenges' /\ DOMAIN challenges' = DOMAIN challenges \cup {n}
  BY <1>1
<1>3. /\ DOMAIN kept \subseteq DOMAIN ledger
      /\ \A id \in DOMAIN ledger \ DOMAIN kept : Expired(id)
  BY DEF Swept, Restrict
<1>4. DOMAIN ledger' = DOMAIN kept \cup {n} /\ \A id \in DOMAIN kept \ {n} : ledger'[id] = ledger[id]
  <2>1. ledger' = [i \in DOMAIN kept \cup {n} |-> IF i = n THEN FALSE ELSE ledger[i]]
    BY DEF IssueChallenge
  <2> HIDE DEF kept, n
  <2> QED
    BY <2>1
<1>5. UNCHANGED <<powClock, forgotten, solving, solutions, admitted>>
  BY DEF IssueChallenge
<1> HIDE DEF kept
<1>6. DOMAIN ledger \subseteq DOMAIN challenges
  BY DEF WorkInv, PoWTypeOK
<1>7. PoWTypeOK'
  BY <1>1, <1>2, <1>3, <1>4, <1>5 DEF WorkInv, PoWTypeOK
<1>8. BoundToEnvelope'
  <2>1. c.for = e /\ c.prefix.binding = BindingHash(e) /\ c.expires \in Nat
    BY ChallengeAssumption DEF WorkInv, PoWTypeOK
  <2> HIDE DEF c, n
  <2>2. ASSUME NEW id \in DOMAIN challenges PROVE challenges'[id] = challenges[id]
    BY <1>1
  <2> QED
    BY <1>1, <1>2, <2>1, <2>2 DEF WorkInv, BoundToEnvelope
<1> HIDE DEF c, n
<1>9. Admitted'
  <2> SUFFICES ASSUME NEW i \in DOMAIN admitted
               PROVE  /\ admitted[i].id \in DOMAIN challenges'
                      /\ admitted[i].envelope = challenges'[admitted[i].id].for
                      /\ admitted[i].at < challenges'[admitted[i].id].expires
                      /\ challenges'[admitted[i].id].difficulty <= MaxPoWDifficulty
                      /\ admitted[i].zeros >= challenges'[admitted[i].id].difficulty
                      /\ admitted[i].id \in DOMAIN ledger' => ledger'[admitted[i].id]
    BY <1>5 DEF Admitted
  <2>1. /\ admitted[i].id \in DOMAIN challenges
        /\ admitted[i].id \in DOMAIN ledger => ledger[admitted[i].id]
    BY DEF WorkInv, Admitted
  <2>2. admitted[i].id \in DOMAIN challenges' /\ challenges'[admitted[i].id] = challenges[admitted[i].id]
    BY <1>1, <1>2, <2>1
  <2>3. admitted[i].id \in DOMAIN ledger' => ledger'[admitted[i].id]
    BY <1>2, <1>3, <1>4, <2>1
  <2> QED
    BY <2>2, <2>3 DEF WorkInv, Admitted
<1>10. AdmittedOnce'
  BY <1>5 DEF WorkInv, AdmittedOnce
<1>11. \A id \in DOMAIN challenges : Expired(id) => Expired(id)'
  BY <1>1, <1>5 DEF Expired
<1>12. Remembered'
  BY <1>2, <1>3, <1>4, <1>5, <1>11 DEF WorkInv, Remembered
<1> QED
  BY <1>7, <1>8, <1>9, <1>10, <1>12 DEF WorkInv

\* The envelope a binding was computed for is the only one that has it.
LEMMA BindingsDiffer ==
  ASSUME NEW e \in FirstContacts, NEW f \in FirstContacts, BindingHash(e) = BindingHash(f)
  PROVE  e = f
<1>1. e.sender = f.sender /\ e.recipient = f.recipient /\ e.postmark = f.postmark
  BY DEF BindingHash
<1> QED
  BY <1>1, ChallengeAssumption

\* verify and redeem admit an envelope once for its challenge, or change nothing.
LEMMA PresentKeepsWork ==
  ASSUME WorkInv, NEW s \in solutions \cup ShortSolutions, NEW e \in FirstContacts, Present(s, e)
  PROVE  WorkInv'
<1>1. UNCHANGED <<powClock, challenges, forgotten, solutions>>
  BY DEF Present
<1>2. s.id \in DOMAIN challenges /\ powClock \in Nat
  BY DEF WorkInv, PoWTypeOK, ShortSolutions
<1>3. CASE RedeemExpired(s.id) /\ UNCHANGED admitted
  <2>1. /\ s.id \in DOMAIN ledger /\ Expired(s.id)
        /\ DOMAIN ledger' = DOMAIN ledger \ {s.id} /\ \A id \in DOMAIN ledger' : ledger'[id] = ledger[id]
    BY <1>3 DEF RedeemExpired, Restrict
  <2>2. DOMAIN ledger \ DOMAIN ledger' = {s.id}
    BY <2>1
  <2>3. powClock' \in Nat /\ powClock' >= powClock
    BY <1>1, <1>2
  <2>4. IsSequence(forgotten') /\ \A t \in solutions' : t.id \in DOMAIN challenges
    BY <1>1 DEF WorkInv, PoWTypeOK
  <2> QED
    BY <1>1, <1>3, <2>1, <2>2, <2>3, <2>4, LedgerStep
<1>4. ASSUME Redeem(s.id) PROVE /\ s.id \in DOMAIN ledger /\ ~ledger[s.id] /\ ~Expired(s.id)
                                /\ DOMAIN ledger' = DOMAIN ledger /\ ledger'[s.id]
                                /\ \A id \in DOMAIN ledger \ {s.id} : ledger'[id] = ledger[id]
  BY <1>4 DEF Redeem
<1>5. CASE Redeem(s.id) /\ UNCHANGED admitted
  <2>1. \A id \in DOMAIN ledger' : ledger[id] => ledger'[id]
    BY <1>4, <1>5
  <2>2. powClock' \in Nat /\ powClock' >= powClock
    BY <1>1, <1>2
  <2>3. IsSequence(forgotten') /\ \A t \in solutions' : t.id \in DOMAIN challenges
    BY <1>1 DEF WorkInv, PoWTypeOK
  <2> QED
    BY <1>1, <1>4, <1>5, <2>1, <2>2, <2>3, LedgerStep
<1>6. CASE /\ Redeem(s.id)
           /\ VerifyFirstContactBinding(challenges[s.id].prefix, e)
           /\ VerifyChallengeSolution(challenges[s.id], s.id, s)
           /\ admitted' = Append(admitted, [id |-> s.id, envelope |-> e, zeros |-> s.zeros, at |-> powClock])
  <2> DEFINE a == [id |-> s.id, envelope |-> e, zeros |-> s.zeros, at |-> powClock]
             n == Len(admitted) + 1
  <2>1. /\ IsSequence(admitted') /\ DOMAIN admitted = 1..Len(admitted) /\ Len(admitted) \in Nat
        /\ DOMAIN admitted' = 1..n
        /\ \A i \in DOMAIN admitted : admitted'[i] = admitted[i]
        /\ admitted'[n] = a
    <3>1. IsSequence(admitted) /\ admitted' = Append(admitted, a)
      BY <1>6 DEF WorkInv, PoWTypeOK
    <3> HIDE DEF a
    <3> QED
      BY <3>1, Appended DEF IsSequence
  <2>2. n \notin DOMAIN admitted /\ DOMAIN admitted' = DOMAIN admitted \cup {n}
    BY <2>1
  <2>3. e = challenges[s.id].for
    <3>1. challenges[s.id].for \in FirstContacts /\ challenges[s.id].prefix.binding = BindingHash(challenges[s.id].for)
      BY <1>2 DEF WorkInv, BoundToEnvelope
    <3>2. BindingHash(e) = challenges[s.id].prefix.binding
      BY <1>6 DEF VerifyFirstContactBinding
    <3> QED
      BY <3>1, <3>2, BindingsDiffer
  <2>4. /\ a.id = s.id /\ a.envelope = challenges[s.id].for /\ a.at < challenges[s.id].expires
        /\ challenges[s.id].difficulty <= MaxPoWDifficulty /\ a.zeros >= challenges[s.id].difficulty
    <3>1. challenges[s.id].expires \in Nat
      BY <1>2 DEF WorkInv, BoundToEnvelope
    <3>2. powClock < challenges[s.id].expires
      BY <1>2, <1>4, <1>6, <3>1 DEF Expired
    <3>3. challenges[s.id].difficulty <= MaxPoWDifficulty
      <4>1. challenges[s.id].difficulty \in 0..MaxPoWDifficulty
        BY <1>6, Zenon DEF VerifyChallengeSolution
      <4> QED
        BY <4>1 DEF MaxPoWDifficulty
    <3>4. s.zeros >= challenges[s.id].difficulty
      BY <1>6, Zenon DEF VerifyChallengeSolution
    <3> QED
      BY <2>3, <3>2, <3>3, <3>4
  <2> HIDE DEF a, n
  <2>5. \A i \in DOMAIN admitted : admitted[i].id # s.id
    BY <1>4, <1>6 DEF WorkInv, Admitted
  <2>6. AdmittedOnce'
    BY <2>1, <2>2, <2>4, <2>5 DEF WorkInv, AdmittedOnce
  <2>7. Admitted'
    <3> SUFFICES ASSUME NEW i \in DOMAIN admitted'
                 PROVE  /\ admitted'[i].id \in DOMAIN challenges
                        /\ admitted'[i].envelope = challenges[admitted'[i].id].for
                        /\ admitted'[i].at < challenges[admitted'[i].id].expires
                        /\ challenges[admitted'[i].id].difficulty <= MaxPoWDifficulty
                        /\ admitted'[i].zeros >= challenges[admitted'[i].id].difficulty
                        /\ admitted'[i].id \in DOMAIN ledger' => ledger'[admitted'[i].id]
      BY <1>1 DEF Admitted
    <3>1. CASE i = n
      BY <1>2, <1>4, <1>6, <2>1, <2>4, <3>1
    <3>2. CASE i \in DOMAIN admitted
      <4>1. admitted'[i] = admitted[i] /\ admitted[i].id # s.id
        BY <2>1, <2>5, <3>2
      <4> QED
        BY <1>4, <1>6, <3>2, <4>1 DEF WorkInv, Admitted
    <3> QED
      BY <2>2, <3>1, <3>2
  <2>8. Remembered' /\ BoundToEnvelope'
    BY <1>1, <1>4, <1>6 DEF WorkInv, Remembered, BoundToEnvelope, Expired
  <2>9. PoWTypeOK'
    BY <1>1, <1>4, <1>6, <2>1 DEF WorkInv, PoWTypeOK
  <2> QED
    BY <2>6, <2>7, <2>8, <2>9 DEF WorkInv
<1> QED
  BY <1>3, <1>5, <1>6 DEF Present

\* The work a client does for a challenge admits one envelope, the one the
\* challenge was issued for, once, and no sweep and no attempt with another
\* challenge makes the ledger forget it (ChallengeLedger, first_contact.ts).
THEOREM WorkAdmitsOnce == ChallengeSpec => []WorkCountsOnce
<1>1. ChallengeInit => WorkInv
  <2> SUFFICES ASSUME ChallengeInit PROVE WorkInv
    OBVIOUS
  <2>1. DOMAIN challenges = {} /\ DOMAIN admitted = {} /\ DOMAIN ledger = {} /\ solutions = {}
    BY DEF ChallengeInit
  <2>2. IsSequence(challenges) /\ IsSequence(admitted) /\ IsSequence(forgotten) /\ powClock \in Nat
    BY EmptyIsSequence DEF ChallengeInit
  <2> QED
    BY <2>1, <2>2 DEF WorkInv, PoWTypeOK, BoundToEnvelope, Admitted, AdmittedOnce, Remembered
<1>2. ASSUME WorkInv, [ChallengeNext]_powVars PROVE WorkInv'
  <2>1. powClock \in Nat /\ IsSequence(forgotten) /\ \A s \in solutions : s.id \in DOMAIN challenges
    BY <1>2 DEF WorkInv, PoWTypeOK
  <2>2. ASSUME UNCHANGED <<challenges, ledger, forgotten, admitted>>, powClock' \in Nat, powClock' >= powClock,
               \A s \in solutions' : s.id \in DOMAIN challenges
        PROVE  WorkInv'
    BY <1>2, <2>1, <2>2, LedgerStep
  <2>3. CASE UNCHANGED powVars
    BY <2>1, <2>2, <2>3 DEF powVars
  <2>4. ASSUME NEW e \in FirstContacts, NEW d, IssueChallenge(e, d) PROVE WorkInv'
    BY <1>2, <2>4, IssueKeepsWork
  <2>5. ASSUME NEW id \in DOMAIN challenges, NEW algorithm, OnChallenge(id, algorithm) \/ SolvePoW(id)
        PROVE  WorkInv'
    <3>1. \A s \in solutions' : s.id \in DOMAIN challenges
      BY <2>1, <2>5 DEF OnChallenge, SolvePoW
    <3> QED
      BY <2>1, <2>2, <2>5, <3>1 DEF OnChallenge, SolvePoW
  <2>6. ASSUME NEW s \in solutions \cup ShortSolutions, NEW e \in FirstContacts, Present(s, e) PROVE WorkInv'
    BY <1>2, <2>6, PresentKeepsWork
  <2>7. CASE Sweep
    <3>1. /\ DOMAIN ledger' \subseteq DOMAIN ledger
          /\ \A id \in DOMAIN ledger' : ledger'[id] = ledger[id]
          /\ \A id \in DOMAIN ledger \ DOMAIN ledger' : Expired(id)
      BY <2>7 DEF Sweep, Swept, Restrict
    <3>2. UNCHANGED <<powClock, challenges, forgotten, solutions, admitted>>
      BY <2>7 DEF Sweep
    <3> QED
      BY <1>2, <2>1, <3>1, <3>2, LedgerStep
  <2>8. CASE LedgerRestarts
    <3>1. DOMAIN ledger' = {} /\ UNCHANGED <<powClock, challenges, solutions, admitted>>
      BY <2>8 DEF LedgerRestarts
    <3>2. forgotten' = Append(forgotten, DOMAIN ledger)
      BY <2>8 DEF LedgerRestarts
    <3>3. /\ IsSequence(forgotten')
          /\ \A i \in DOMAIN forgotten : i \in DOMAIN forgotten' /\ forgotten'[i] = forgotten[i]
          /\ \E i \in DOMAIN forgotten' : forgotten'[i] = DOMAIN ledger
      <4> DEFINE lost == DOMAIN ledger
      <4> HIDE DEF lost
      <4> SUFFICES ASSUME forgotten' = Append(forgotten, lost)
                   PROVE /\ IsSequence(forgotten')
                         /\ \A i \in DOMAIN forgotten : i \in DOMAIN forgotten' /\ forgotten'[i] = forgotten[i]
                         /\ \E i \in DOMAIN forgotten' : forgotten'[i] = lost
        BY <3>2 DEF lost
      <4>1. Len(forgotten) \in Nat
        BY <2>1 DEF IsSequence
      <4> QED
        BY <2>1, <4>1, Appended
    <3>4. \A id \in DOMAIN ledger : \E i \in DOMAIN forgotten' : id \in forgotten'[i]
      BY <3>3
    <3> QED
      BY <1>2, <2>1, <3>1, <3>3, <3>4, LedgerStep
  <2>9. CASE PoWTick
    BY <2>1, <2>2, <2>9 DEF PoWTick
  <2> QED
    BY <1>2, <2>3, <2>4, <2>5, <2>6, <2>7, <2>8, <2>9 DEF ChallengeNext
<1>3. WorkInv => WorkCountsOnce
  <2> SUFFICES ASSUME WorkInv PROVE WorkCountsOnce
    OBVIOUS
  <2>1. Admitted /\ AdmittedOnce /\ Remembered
    BY DEF WorkInv
  <2> QED
    BY <2>1 DEF Admitted, AdmittedOnce, Remembered, WorkCountsOnce
<1> QED
  BY <1>1, <1>2, <1>3, PTL DEF ChallengeSpec

-----------------------------------------------------------------------------
(* A directory is current and is not rolled back *)

\* What emit() does to a state, whatever is in it.
LEMMA Emitted ==
  ASSUME NEW devices, NEW n \in Nat, NEW current, NEW up, NEW key
  PROVE  LET before == [up |-> up, devices |-> devices, revision |-> n, current |-> current]
             after == Emit(before, key) IN
         /\ after.devices = devices
         /\ \/ /\ after.revision = n + 1
               /\ after.current.revision = n + 1 /\ after.current.devices = devices
            \/ /\ after.revision = n /\ after.current = current
               /\ ~ValidateDeviceDirectory([revision |-> n + 1, devices |-> devices, signature |-> NoSignature])
<1> DEFINE before == [up |-> up, devices |-> devices, revision |-> n, current |-> current]
           dir == [revision |-> n + 1, devices |-> devices, signature |-> NoSignature]
           signed == SignDeviceDirectory(dir, key)
<1>1. signed.revision = n + 1 /\ signed.devices = devices
  BY DEF SignDeviceDirectory, SignSignedDoc
<1>2. Emit(before, key) = IF ValidateDeviceDirectory(dir)
                          THEN [before EXCEPT !.revision = n + 1, !.current = signed] ELSE before
  BY DEF Emit
<1> HIDE DEF signed, dir
<1>3. CASE ValidateDeviceDirectory(dir)
  BY <1>1, <1>2, <1>3
<1>4. CASE ~ValidateDeviceDirectory(dir)
  BY <1>2, <1>4 DEF dir
<1> QED
  BY <1>3, <1>4

\* A set of sound devices that can all be signed makes a valid directory.
LEMMA SoundIsValid ==
  ASSUME NEW devices, SoundDevices(devices), \A e \in devices : Signable(e), NEW n \in Nat
  PROVE  ValidateDeviceDirectory([revision |-> n + 1, devices |-> devices, signature |-> NoSignature])
BY DEF SoundDevices, ValidateDeviceDirectory, Signable

\* What is served is appended to what was issued, in order.
LEMMA ServedInOrder ==
  ASSUME IssuedInOrder, HighestSeen, NEW state, Serve(state), UNCHANGED <<highest, view>>,
         \/ /\ starts' = starts
            /\ \/ state.revision = directory.revision + 1 /\ state.current.revision = state.revision
               \/ state.revision = directory.revision /\ state.current = directory.current
         \/ /\ starts' = starts + 1 /\ state.revision \in Nat
            /\ state.current = NoDirectory \/ state.current.revision = state.revision
  PROVE  /\ IssuedInOrder' /\ HighestSeen'
         /\ \A i \in DOMAIN issued : i \in DOMAIN issued' /\ issued'[i] = issued[i]
<1>1. directory' = state /\ starts \in Nat /\ starts' \in Nat /\ directory.revision \in Nat /\ state.revision \in Nat
      /\ starts' >= starts /\ (starts' = starts => state.revision >= directory.revision)
  BY DEF Serve, IssuedInOrder
<1>2. CASE issued' = issued
  <2>1. IssuedInOrder'
    <3>1. \A i \in DOMAIN issued : issued[i].start = starts' => starts' = starts
      BY <1>1 DEF IssuedInOrder
    <3>2. \A i \in DOMAIN issued :
            /\ issued[i].start \in Nat /\ issued[i].dir.revision \in Nat
            /\ issued[i].start <= starts'
            /\ issued[i].start = starts' => issued[i].dir.revision <= state.revision
      BY <1>1, <3>1 DEF IssuedInOrder
    <3> QED
      BY <1>1, <1>2, <3>2 DEF IssuedInOrder
  <2> QED
    BY <1>2, <2>1 DEF HighestSeen
<1>3. CASE issued' = Append(issued, [dir |-> state.current, start |-> starts'])
           /\ state.current # NoDirectory /\ ~(state.current = directory.current /\ starts' = starts)
  <2> DEFINE new == [dir |-> state.current, start |-> starts']
             n == Len(issued) + 1
  <2>1. /\ IsSequence(issued') /\ DOMAIN issued = 1..Len(issued) /\ Len(issued) \in Nat
        /\ DOMAIN issued' = 1..n
        /\ \A i \in DOMAIN issued : issued'[i] = issued[i]
        /\ issued'[n] = new
    <3>1. IsSequence(issued) /\ issued' = Append(issued, new)
      BY <1>3 DEF IssuedInOrder
    <3> HIDE DEF new
    <3> QED
      BY <3>1, Appended DEF IsSequence
  <2>2. new.start = starts' /\ new.dir.revision = state.revision
    BY <1>3
  <2>3. \A i \in DOMAIN issued' : i = n \/ (i \in DOMAIN issued /\ i < n)
    BY <2>1
  <2> HIDE DEF new
  <2>4. ASSUME NEW i \in DOMAIN issued
        PROVE  /\ issued[i].start \in Nat /\ issued[i].dir.revision \in Nat
               /\ issued[i].start <= starts'
               /\ issued[i].start = starts' => issued[i].dir.revision < state.revision
    <3>1. /\ issued[i].start \in Nat /\ issued[i].dir.revision \in Nat /\ issued[i].start <= starts
          /\ issued[i].start = starts => issued[i].dir.revision <= directory.revision
      BY DEF IssuedInOrder
    <3>2. starts' = starts => state.revision = directory.revision + 1
      BY <1>1, <1>3
    <3>3. starts' = starts \/ starts' = starts + 1
      OBVIOUS
    <3> QED
      BY <1>1, <3>1, <3>2, <3>3
  <2>5. ASSUME NEW i \in DOMAIN issued'
        PROVE  /\ issued'[i].start \in Nat /\ issued'[i].dir.revision \in Nat
               /\ issued'[i].start <= starts'
               /\ issued'[i].start = starts' => issued'[i].dir.revision <= state.revision
    <3>1. CASE i = n
      BY <1>1, <2>1, <2>2, <3>1
    <3>2. CASE i \in DOMAIN issued
      <4>1. issued'[i] = issued[i]
        BY <2>1, <3>2
      <4>2. issued[i].dir.revision < state.revision => issued[i].dir.revision <= state.revision
        BY <1>1, <2>4, <3>2
      <4> QED
        BY <2>4, <3>2, <4>1, <4>2
    <3> QED
      BY <2>3, <3>1, <3>2
  <2>6. ASSUME NEW i \in DOMAIN issued', NEW j \in DOMAIN issued', i < j
        PROVE  /\ issued'[i].start <= issued'[j].start
               /\ issued'[i].start = issued'[j].start => issued'[i].dir.revision < issued'[j].dir.revision
    <3>1. i \in DOMAIN issued /\ issued'[i] = issued[i]
      BY <2>1, <2>3, <2>6
    <3>2. CASE j = n
      BY <2>1, <2>2, <2>4, <3>1, <3>2
    <3>3. CASE j \in DOMAIN issued
      <4>1. issued'[j] = issued[j]
        BY <2>1, <3>3
      <4> QED
        BY <2>6, <3>1, <3>3, <4>1 DEF IssuedInOrder
    <3> QED
      BY <2>3, <3>2, <3>3
  <2>7. IssuedInOrder'
    BY <1>1, <2>1, <2>5, <2>6 DEF IssuedInOrder
  <2>8. \A i \in DOMAIN issued : i \in DOMAIN issued' /\ issued'[i] = issued[i]
    BY <2>1
  <2>9. HighestSeen'
    BY <2>8 DEF HighestSeen
  <2> QED
    BY <2>7, <2>8, <2>9
<1> QED
  BY <1>2, <1>3 DEF Serve

\* addDevice and revokeDevice publish their devices, or change nothing else.
LEMMA EmitKeepsDirectory ==
  ASSUME DirInv, NEW devices, SoundDevices(devices), directory.up,
         Serve(Emit([directory EXCEPT !.devices = devices], identity)), UNCHANGED <<starts, highest, view>>
  PROVE  /\ DirInv'
         /\ \A i \in DOMAIN issued : i \in DOMAIN issued' /\ issued'[i] = issued[i]
<1> DEFINE up == directory.up
           n == directory.revision
           current == directory.current
           before == [up |-> up, devices |-> devices, revision |-> n, current |-> current]
           after == Emit(before, identity)
<1>1. [directory EXCEPT !.devices = devices] = before
  <2>1. directory = [up |-> up, devices |-> directory.devices, revision |-> n, current |-> current]
    BY DEF DirInv, DirectoryState
  <2> HIDE DEF up, n, current
  <2> QED
    BY <2>1
<1>2. n \in Nat
  BY DEF DirInv, IssuedInOrder
<1>3. Serve(after)
  BY <1>1
<1>4. /\ after.devices = devices
      /\ \/ /\ after.revision = n + 1
            /\ after.current.revision = n + 1 /\ after.current.devices = devices
         \/ /\ after.revision = n /\ after.current = current
            /\ ~ValidateDeviceDirectory([revision |-> n + 1, devices |-> devices, signature |-> NoSignature])
  <2> HIDE DEF n, current, up
  <2> QED
    BY <1>2, Emitted
<1>5. after = [up |-> after.up, devices |-> after.devices, revision |-> after.revision, current |-> after.current]
  BY DEF Emit
<1> HIDE DEF after
<1>6. directory' = after
  BY <1>3 DEF Serve
<1>7. /\ IssuedInOrder' /\ HighestSeen'
      /\ \A i \in DOMAIN issued : i \in DOMAIN issued' /\ issued'[i] = issued[i]
  BY <1>3, <1>4, ServedInOrder DEF DirInv
<1>8. PublishedIsCurrent'
  <2> SUFFICES ASSUME \A e \in devices : Signable(e) PROVE after.current.devices = devices
    BY <1>4, <1>6 DEF PublishedIsCurrent
  <2> QED
    BY <1>2, <1>4, SoundIsValid
<1>9. directory' = DirectoryState' /\ SoundDevices(directory'.devices)
  BY <1>4, <1>5, <1>6 DEF DirectoryState
<1> QED
  BY <1>7, <1>8, <1>9 DEF DirInv

\* A restart issues the directory of a later start.
LEMMA RestartKeepsDirectory ==
  ASSUME DirInv, NEW key, Restart(key)
  PROVE  /\ DirInv'
         /\ \A i \in DOMAIN issued : i \in DOMAIN issued' /\ issued'[i] = issued[i]
<1>1. PICK initial \in {directory.devices, {e \in directory.devices : Signable(e)}} : Serve(Construct(initial, key))
  BY DEF Restart
<1>2. SoundDevices(initial)
  BY DEF DirInv, SoundDevices
<1> DEFINE fresh == [up |-> TRUE, devices |-> initial, revision |-> 0, current |-> NoDirectory]
           first == IF initial = {} THEN fresh ELSE Emit(fresh, key)
           state == Construct(initial, key)
<1>3. /\ first.devices = initial
      /\ \/ initial # {} /\ first.revision = 1 /\ first.current.revision = 1 /\ first.current.devices = initial
         \/ first.revision = 0 /\ first.current = NoDirectory
  <2>1. CASE initial = {}
    BY <2>1
  <2>2. CASE initial # {}
    <3> DEFINE up == TRUE
               none == NoDirectory
               zero == 0
               before == [up |-> up, devices |-> initial, revision |-> zero, current |-> none]
               after == Emit(before, key)
    <3>1. zero \in Nat /\ first = after
      BY <2>2
    <3>2. zero = 0 /\ none = NoDirectory
      OBVIOUS
    <3> HIDE DEF up, none, zero
    <3>3. /\ after.devices = initial
          /\ \/ /\ after.revision = zero + 1
                /\ after.current.revision = zero + 1 /\ after.current.devices = initial
             \/ /\ after.revision = zero /\ after.current = none
                /\ ~ValidateDeviceDirectory([revision |-> zero + 1, devices |-> initial, signature |-> NoSignature])
      BY <3>1, Emitted
    <3> HIDE DEF after, first
    <3> QED
      BY <2>2, <3>1, <3>2, <3>3
  <2> QED
    BY <2>1, <2>2
<1>4. first = [up |-> first.up, devices |-> first.devices, revision |-> first.revision, current |-> first.current]
  BY DEF Emit
<1>5. state = [first EXCEPT !.up = initial = {} \/ first.revision = 1]
  BY DEF Construct
<1> HIDE DEF first, state
<1>6. /\ state = [up |-> state.up, devices |-> state.devices, revision |-> state.revision, current |-> state.current]
      /\ state.up <=> (initial = {} \/ first.revision = 1)
      /\ state.devices = initial /\ state.revision = first.revision /\ state.current = first.current
  BY <1>3, <1>4, <1>5
<1>7. directory' = state /\ Serve(state)
  BY <1>1 DEF Serve, state
<1>8. /\ IssuedInOrder' /\ HighestSeen'
      /\ \A i \in DOMAIN issued : i \in DOMAIN issued' /\ issued'[i] = issued[i]
  <2>1. UNCHANGED <<highest, view>> /\ starts' = starts + 1
    BY DEF Restart
  <2>2. state.revision \in Nat /\ (state.current = NoDirectory \/ state.current.revision = state.revision)
    BY <1>3, <1>6
  <2> QED
    BY <1>7, <2>1, <2>2, ServedInOrder DEF DirInv
<1>9. PublishedIsCurrent'
  <2> SUFFICES ASSUME state.up PROVE state.devices = state.current.devices
    BY <1>7 DEF PublishedIsCurrent
  <2>1. CASE initial = {}
    BY <1>3, <1>6, <2>1 DEF NoDirectory
  <2>2. CASE first.revision = 1
    BY <1>3, <1>6, <2>2
  <2> QED
    BY <1>6, <2>1, <2>2
<1>10. directory' = DirectoryState' /\ SoundDevices(directory'.devices)
  BY <1>2, <1>6, <1>7 DEF DirectoryState
<1> QED
  BY <1>8, <1>9, <1>10 DEF DirInv

\* What a step may do to a correspondent's view.
Forward ==
  \A c \in Correspondents :
    view[c] # 0 /\ view'[c] # 0 /\ issued[view[c]].start = issued'[view'[c]].start => view'[c] >= view[c]

\* Every step of a directory and its correspondents keeps the invariant.
LEMMA DirectoryStep ==
  ASSUME DirInv, [DirectoryNext]_directoryVars
  PROVE  DirInv' /\ Forward
<1>1. ASSUME UNCHANGED view PROVE Forward
  <2> SUFFICES ASSUME NEW c \in Correspondents PROVE view[c] >= view[c]
    BY <1>1 DEF Forward
  <2>1. view[c] \in Nat
    BY DEF DirInv, HighestSeen
  <2> QED
    BY <2>1
<1>2. CASE UNCHANGED directoryVars
  <2>1. DirInv'
    BY <1>2 DEF directoryVars, DirInv, DirectoryState, IssuedInOrder, HighestSeen, PublishedIsCurrent
  <2> QED
    BY <1>1, <1>2, <2>1 DEF directoryVars
<1>3. ASSUME NEW e, AddDevice(e) PROVE DirInv' /\ Forward
  <2> DEFINE devices == directory.devices \cup {e}
  <2>1. SoundDevices(devices)
    <3>1. \A f \in directory.devices : f.device_id # e.device_id
      BY <1>3 DEF AddDevice, Addable, FindDevice
    <3> QED
      BY <1>3, <3>1 DEF AddDevice, Addable, DirInv, SoundDevices
  <2>2. directory.up /\ Serve(Emit([directory EXCEPT !.devices = devices], identity)) /\ UNCHANGED <<starts, highest, view>>
    BY <1>3 DEF AddDevice
  <2> HIDE DEF devices
  <2> QED
    BY <1>1, <2>1, <2>2, EmitKeepsDirectory
<1>4. ASSUME NEW id, RevokeDevice(id) PROVE DirInv' /\ Forward
  <2> DEFINE devices == directory.devices \ FindDevice(directory.devices, id)
  <2>1. SoundDevices(devices)
    BY DEF DirInv, SoundDevices
  <2>2. directory.up /\ Serve(Emit([directory EXCEPT !.devices = devices], identity)) /\ UNCHANGED <<starts, highest, view>>
    BY <1>4 DEF RevokeDevice
  <2> HIDE DEF devices
  <2> QED
    BY <1>1, <2>1, <2>2, EmitKeepsDirectory
<1>5. ASSUME NEW e, NEW a, NEW key, Enroll(e, a, key) PROVE DirInv' /\ Forward
  BY <1>3, <1>5 DEF Enroll
<1>6. ASSUME NEW key, Restart(key) PROVE DirInv' /\ Forward
  BY <1>1, <1>6, RestartKeepsDirectory DEF Restart
<1>7. ASSUME NEW c \in Correspondents, NEW i \in DOMAIN issued, NEW checked, VerifyAndCache(c, i, checked)
      PROVE  DirInv' /\ Forward
  <2>1. /\ UNCHANGED <<directory, identity, issued, starts, nonce>>
        /\ ~(highest[c] # -1 /\ issued[i].dir.revision < highest[c])
        /\ highest' = [highest EXCEPT ![c] = issued[i].dir.revision]
        /\ view' = [view EXCEPT ![c] = i]
    BY <1>7 DEF VerifyAndCache
  <2>2. /\ i \in Nat /\ i # 0 /\ issued[i].dir.revision \in Nat /\ DOMAIN issued = 1..Len(issued) /\ Len(issued) \in Nat
    BY DEF DirInv, IssuedInOrder, IsSequence
  <2>3. HighestSeen'
    BY <2>1, <2>2 DEF DirInv, HighestSeen
  <2>4. DirInv'
    BY <2>1, <2>3 DEF DirInv, DirectoryState, IssuedInOrder, PublishedIsCurrent
  <2>5. ASSUME view[c] # 0, issued[view[c]].start = issued[i].start PROVE i >= view[c]
    <3>1. view[c] \in DOMAIN issued /\ view[c] \in Nat /\ highest[c] = issued[view[c]].dir.revision
      BY <2>5 DEF DirInv, HighestSeen
    <3>2. issued[view[c]].dir.revision \in Nat
      BY <3>1 DEF DirInv, IssuedInOrder
    <3>3. ~(issued[i].dir.revision < issued[view[c]].dir.revision)
      BY <2>1, <3>1, <3>2
    <3>4. i < view[c] => issued[i].dir.revision < issued[view[c]].dir.revision
      BY <2>5, <3>1 DEF DirInv, IssuedInOrder
    <3> QED
      BY <2>2, <3>1, <3>3, <3>4
  <2>6. Forward
    <3> SUFFICES ASSUME NEW x \in Correspondents, view[x] # 0, issued[view[x]].start = issued[view'[x]].start
                 PROVE  view'[x] >= view[x]
      BY <2>1 DEF Forward
    <3>1. view \in [Correspondents -> Nat]
      BY DEF DirInv, HighestSeen
    <3> QED
      BY <2>1, <2>5, <3>1
  <2> QED
    BY <2>4, <2>6
<1>8. ASSUME NEW c \in Correspondents, ResetCache(c) PROVE DirInv' /\ Forward
  <2>1. /\ UNCHANGED <<directory, identity, issued, starts, nonce>>
        /\ highest' = [highest EXCEPT ![c] = -1] /\ view' = [view EXCEPT ![c] = 0]
    BY <1>8 DEF ResetCache
  <2>2. HighestSeen'
    BY <2>1 DEF DirInv, HighestSeen
  <2>3. DirInv'
    BY <2>1, <2>2 DEF DirInv, DirectoryState, IssuedInOrder, PublishedIsCurrent
  <2>4. \A x \in Correspondents : view[x] \in Nat /\ view'[x] \in {0, view[x]}
    BY <2>1 DEF DirInv, HighestSeen
  <2> QED
    BY <2>3, <2>4 DEF Forward
<1> QED
  BY <1>2, <1>3, <1>4, <1>5, <1>6, <1>7, <1>8 DEF DirectoryNext

\* So it holds of every reachable state.
LEMMA DirectoryInvariant == DirectorySpec => []DirInv
<1>1. DirectoryInit => DirInv
  <2> SUFFICES ASSUME DirectoryInit PROVE DirInv
    OBVIOUS
  <2>1. /\ directory.devices = {} /\ directory.revision = 0 /\ directory.current = NoDirectory
        /\ directory = DirectoryState
    BY DEF DirectoryInit, DirectoryState
  <2>2. IsSequence(issued) /\ DOMAIN issued = {}
    BY EmptyIsSequence DEF DirectoryInit
  <2>3. IssuedInOrder
    BY <2>1, <2>2 DEF DirectoryInit, IssuedInOrder
  <2>4. HighestSeen
    BY DEF DirectoryInit, HighestSeen
  <2> QED
    BY <2>1, <2>3, <2>4 DEF DirInv, SoundDevices, PublishedIsCurrent, NoDirectory
<1> QED
  BY <1>1, DirectoryStep, PTL DEF DirectorySpec

\* The directory a home server serves lists its active devices, unless one of
\* them cannot be signed (DirectoryState).
THEOREM ServedIsCurrent == DirectorySpec => []PublishedIsCurrent
BY DirectoryInvariant, PTL DEF DirInv

\* No correspondent replaces a directory by an older one of the same start of
\* the home server, in whatever order its fetches are answered (verifyAndCache).
THEOREM NeverRolledBack == DirectorySpec => NoRollback
<1>1. DirInv /\ [DirectoryNext]_directoryVars
        => [\A c \in Correspondents :
              view[c] # 0 /\ view'[c] # 0 /\ issued[view[c]].start = issued'[view'[c]].start
                => view'[c] >= view[c]]_directoryVars
  BY DirectoryStep DEF Forward
<1> QED
  BY <1>1, DirectoryInvariant, PTL DEF DirectorySpec, NoRollback

-----------------------------------------------------------------------------
(* Nothing found is stale *)

\* Every step of a resolution, of the cache and of the domain keeps KeyInv.
LEMMA DiscoveryStep ==
  ASSUME KeyInv, [DiscoveryNext]_discoveryVars
  PROVE  KeyInv'
<1>1. /\ clock \in Nat /\ signingKey \in [signing : Nat, key_id : Nat] /\ call \in ResolveCall
      /\ entry \in [expiresAt : Nat, putAt : Nat, ttl : Int]
  BY DEF KeyInv
<1>2. CASE UNCHANGED discoveryVars
  BY <1>2 DEF discoveryVars, KeyInv
<1>3. ASSUME UNCHANGED <<call, answers, entry, served, clock>>, signingKey' \in [signing : Nat, key_id : Nat],
             signingKey'.signing >= signingKey.signing
      PROVE  KeyInv'
  <2>1. call.since <= signingKey.signing => call.since <= signingKey'.signing
    <3>1. call.since \in Nat /\ signingKey.signing \in Nat /\ signingKey'.signing \in Nat
      BY <1>1, <1>3 DEF ResolveCall
    <3> QED
      BY <1>3, <3>1
  <2>2. call.key \in call.since..signingKey.signing => call.key \in call.since..signingKey'.signing
    BY <1>1, <1>3
  <2> QED
    BY <1>3, <2>1, <2>2 DEF KeyInv
<1>4. ASSUME NEW b \in BOOLEAN, PublishNextKey(b) PROVE KeyInv'
  <2>1. signingKey' = [signing |-> signingKey.signing + 1,
                       key_id |-> IF b THEN signingKey.signing + 1 ELSE signingKey.key_id]
    BY <1>4 DEF PublishNextKey
  <2>2. signingKey' \in [signing : Nat, key_id : Nat] /\ signingKey'.signing >= signingKey.signing
    BY <1>1, <2>1
  <2> QED
    BY <1>3, <1>4, <2>2 DEF PublishNextKey
<1>5. CASE PublishKeyId
  BY <1>1, <1>3, <1>5 DEF PublishKeyId
<1>6. ASSUME UNCHANGED <<signingKey, answers, entry, served, clock>>, call' \in ResolveCall,
             call'.since <= signingKey.signing,
             call'.at = "resolved" => call'.key \in call'.since..signingKey.signing
      PROVE  KeyInv'
  BY <1>6 DEF KeyInv
<1>7. CASE ResolveServer
  <2>1. call' = [at |-> "configuration headers", since |-> signingKey.signing, key |-> 0, timer |-> TRUE]
    BY <1>7 DEF ResolveServer
  <2> QED
    <3>1. signingKey.signing \in Nat
      BY <1>1
    <3>2. call' \in ResolveCall /\ call'.since = signingKey.signing /\ call'.at # "resolved"
      BY <2>1, <3>1 DEF ResolveCall
    <3>3. call'.since <= signingKey.signing
      BY <3>1, <3>2
    <3> QED
      BY <1>6, <1>7, <3>2, <3>3 DEF ResolveServer
<1>8. ASSUME call' \in ResolveCall, call'.since = call.since, call'.at # "resolved",
             UNCHANGED <<signingKey, answers, entry, served, clock>>
      PROVE  KeyInv'
  BY <1>6, <1>8 DEF KeyInv
<1>9. ASSUME NEW b \in BOOLEAN, Headers(b) PROVE KeyInv'
  <2> DEFINE at == CASE ~b -> "failed"
                     [] b /\ call.at = "configuration headers" -> "configuration body"
                     [] OTHER -> "domain_keys body"
  <2>1. at \in {"failed", "configuration body", "domain_keys body"}
    OBVIOUS
  <2>2. call' = [call EXCEPT !.timer = FALSE, !.at = at]
    BY <1>9 DEF Headers
  <2> HIDE DEF at
  <2>3. call' \in ResolveCall /\ call'.since = call.since /\ call'.at # "resolved"
    BY <1>1, <2>1, <2>2 DEF ResolveCall
  <2> QED
    BY <1>8, <1>9, <2>3 DEF Headers
<1>10. CASE AbortFetch
  <2>1. call' = [call EXCEPT !.at = "failed", !.timer = FALSE]
    BY <1>10 DEF AbortFetch
  <2>2. call' \in ResolveCall /\ call'.since = call.since /\ call'.at # "resolved"
    BY <1>1, <2>1 DEF ResolveCall
  <2> QED
    BY <1>8, <1>10, <2>2 DEF AbortFetch
<1>11. ASSUME NEW b \in BOOLEAN, ConfigurationBody(b) PROVE KeyInv'
  <2>1. \/ call' = [call EXCEPT !.at = "domain_keys headers", !.timer = TRUE]
        \/ call' = [call EXCEPT !.at = "failed"]
    BY <1>11 DEF ConfigurationBody
  <2>2. call' \in ResolveCall /\ call'.since = call.since /\ call'.at # "resolved"
    BY <1>1, <2>1 DEF ResolveCall
  <2> QED
    BY <1>8, <1>11, <2>2 DEF ConfigurationBody
<1>12. ASSUME NEW b \in BOOLEAN, DomainKeysBody(b) PROVE KeyInv'
  <2>1. CASE call' = [call EXCEPT !.at = "failed"]
    <3>1. call' \in ResolveCall /\ call'.since = call.since /\ call'.at # "resolved"
      BY <1>1, <2>1 DEF ResolveCall
    <3> QED
      BY <1>8, <1>12, <3>1 DEF DomainKeysBody
  <2>2. CASE /\ VerifyDomainKeyFingerprint(signingKey)
             /\ call' = [call EXCEPT !.at = "resolved", !.key = signingKey.key_id]
    <3>1. signingKey.key_id = signingKey.signing
      BY <2>2 DEF VerifyDomainKeyFingerprint
    <3>2. call' \in ResolveCall /\ call'.since = call.since /\ call'.key = signingKey.signing
      BY <1>1, <2>2, <3>1 DEF ResolveCall
    <3>3. call'.since <= signingKey.signing /\ call'.key \in call'.since..signingKey.signing
      BY <1>1, <3>2 DEF KeyInv
    <3> QED
      BY <1>6, <1>12, <3>2, <3>3 DEF DomainKeysBody
  <2> QED
    BY <1>12, <2>1, <2>2 DEF DomainKeysBody
<1>13. ASSUME NEW ttl \in TTLs, AnswerLookup(ttl) PROVE KeyInv'
  <2> DEFINE key == DomainKeyIds[signingKey.signing]
             resp == SignDiscoveryResponse([ttl |-> ttl, signature |-> NoSignature], key)
  <2>1. resp.ttl = ttl
    BY DEF SignDiscoveryResponse, SignSignedDoc
  <2>2. resp.ttl \in Int
    BY <2>1, DiscoveryAssumption
  <2>3. answers' = {resp} /\ UNCHANGED <<signingKey, call, entry, served, clock>>
    BY <1>13 DEF AnswerLookup
  <2> HIDE DEF resp
  <2> QED
    BY <2>2, <2>3 DEF KeyInv
<1>14. ASSUME NEW resp \in answers, PutAnswer(resp) PROVE KeyInv'
  <2>1. answers' = answers \ {resp} /\ UNCHANGED <<signingKey, call, served, clock>>
    BY <1>14 DEF PutAnswer
  <2>2. CASE entry' = entry
    BY <2>1, <2>2 DEF KeyInv
  <2>3. CASE /\ VerifyDiscoveryResponse(resp, DomainKeyIds[call.key])
             /\ entry' = [putAt |-> clock, ttl |-> resp.ttl,
                          expiresAt |-> IF resp.ttl > 0 THEN clock + resp.ttl ELSE 0]
    <3>1. resp.ttl >= 0 /\ resp.ttl \in Int
      BY <2>3 DEF VerifyDiscoveryResponse, KeyInv
    <3>2. entry' \in [expiresAt : Nat, putAt : Nat, ttl : Int]
      BY <1>1, <2>3, <3>1
    <3> QED
      BY <1>1, <2>1, <2>3, <3>1, <3>2 DEF KeyInv
  <2> QED
    BY <1>14, <2>2, <2>3 DEF PutAnswer
<1>15. CASE GetRoute
  <2>1. entry # NoEntry /\ UNCHANGED <<signingKey, call, answers, clock>>
    BY <1>15 DEF GetRoute
  <2>2. entry' = entry \/ entry' = NoEntry
    BY <1>15 DEF GetRoute
  <2>3. NoEntry \in [expiresAt : Nat, putAt : Nat, ttl : Int]
    BY DEF NoEntry
  <2>4. served'.ttl # 0 => served'.age <= served'.ttl
    <3>1. CASE served' = NothingServed
      BY <3>1 DEF NothingServed
    <3>2. CASE Live(entry) /\ served' = [ttl |-> entry.ttl, age |-> clock - entry.putAt]
      <4>1. entry.ttl # 0 => clock <= entry.putAt + entry.ttl
        BY <1>1, <2>1, <3>2 DEF KeyInv, Live
      <4> QED
        BY <1>1, <3>2, <4>1
    <3> QED
      BY <1>15, <3>1, <3>2 DEF GetRoute
  <2> QED
    BY <2>1, <2>2, <2>3, <2>4 DEF KeyInv
<1>16. CASE InvalidateRoute
  BY <1>16 DEF InvalidateRoute, KeyInv, NoEntry
<1>17. CASE DiscoveryTick
  <2>1. clock' = clock + 1 /\ UNCHANGED <<signingKey, call, answers, entry, served>>
    BY <1>17 DEF DiscoveryTick
  <2> QED
    BY <1>1, <2>1 DEF KeyInv
<1> QED
  BY <1>2, <1>4, <1>5, <1>7, <1>9, <1>10, <1>11, <1>12, <1>13, <1>14, <1>15, <1>16, <1>17 DEF DiscoveryNext

\* A resolved key was published while the call ran, and the cache hands nothing
\* out after its ttl (resolveServer, DiscoveryCache).
THEOREM NothingFoundIsStale == DiscoverySpec => []NothingStale
<1>1. DiscoveryInit => KeyInv
  BY DEF DiscoveryInit, KeyInv, ResolveCall, Idle, NoEntry, NothingServed
<1>2. KeyInv => NothingStale
  BY DEF KeyInv, NothingStale
<1> QED
  BY <1>1, <1>2, DiscoveryStep, PTL DEF DiscoverySpec

-----------------------------------------------------------------------------
(* What is opened is what was composed *)

\* compose() seals the two halves of its draft, and signs both or nothing.
LEMMA AssembledIsSealed ==
  ASSUME NEW d \in Drafts, NEW key, NEW padding
  PROVE  LET env == Assemble(d, key, padding) IN
         DOMAIN env = EnvelopeFields /\ BriefOf(env, d) /\ EnclosureOf(env, d) /\ env.signature = NoValue
<1> DEFINE brief == AEADSeal(<<"brief", d.n>>, d.brief, d.id)
           enclosure == AEADSeal(<<"enclosure", d.n>>, d.enclosure, d.id)
           toBrief == [r \in d.briefRecipients |-> Wrap(d.suite, r, <<"brief", d.n>>)]
           toEnclosure == [r \in d.enclosureRecipients |-> Wrap(d.suite, r, <<"enclosure", d.n>>)]
<1>1. Assemble(d, key, padding) =
        [id |-> d.id, algorithm |-> d.suite, key_id |-> key, length |-> d.length, expires |-> d.expires,
         padding |-> padding, brief |-> brief, enclosure |-> enclosure,
         brief_recipients |-> toBrief, enclosure_recipients |-> toEnclosure, signature |-> NoValue]
  BY DEF Assemble
<1> SUFFICES
      LET env == Assemble(d, key, padding) IN
      /\ DOMAIN env = EnvelopeFields /\ env.signature = NoValue
      /\ env.brief = brief /\ env.enclosure = enclosure
      /\ env.brief_recipients = toBrief /\ env.enclosure_recipients = toEnclosure
  BY DEF BriefOf, EnclosureOf
<1> HIDE DEF brief, enclosure, toBrief, toEnclosure
<1> QED
  BY <1>1 DEF EnvelopeFields

\* Blanking or writing a field that is no half leaves the halves alone.
LEMMA HalvesKept ==
  ASSUME NEW env, NEW other, DOMAIN env = EnvelopeFields, NEW d,
         other.brief = env.brief, other.brief_recipients = env.brief_recipients,
         other.enclosure = env.enclosure, other.enclosure_recipients = env.enclosure_recipients
  PROVE  (BriefOf(env, d) => BriefOf(other, d)) /\ (EnclosureOf(env, d) => EnclosureOf(other, d))
BY DEF BriefOf, EnclosureOf

\* Padding and signing write one field of an envelope.
LEMMA FieldWritten ==
  ASSUME NEW env, DOMAIN env = EnvelopeFields, NEW x
  PROVE  /\ LET other == [env EXCEPT !.padding = x] IN
            /\ DOMAIN other = EnvelopeFields /\ other.id = env.id /\ other.signature = env.signature
            /\ other.brief = env.brief /\ other.brief_recipients = env.brief_recipients
            /\ other.enclosure = env.enclosure /\ other.enclosure_recipients = env.enclosure_recipients
         /\ LET other == [env EXCEPT !.signature = x] IN
            /\ DOMAIN other = EnvelopeFields /\ other.id = env.id /\ other.signature = x
            /\ other.brief = env.brief /\ other.brief_recipients = env.brief_recipients
            /\ other.enclosure = env.enclosure /\ other.enclosure_recipients = env.enclosure_recipients
BY DEF EnvelopeFields

\* compose seals both halves of one draft and signs them.
LEMMA ComposedIsSealed ==
  ASSUME NEW d \in Drafts, NEW key, NEW padding
  PROVE  Sealed(Assemble(d, key, padding)) /\ Sealed(Compose(d, key, padding))
<1> DEFINE unsigned == Assemble(d, key, padding)
           covered == CanonicalEnvelopeFor(unsigned)
           signature == Sign(key, <<"SEMP-ENVELOPE:", covered>>)
           env == Compose(d, key, padding)
<1>1. DOMAIN unsigned = EnvelopeFields /\ BriefOf(unsigned, d) /\ EnclosureOf(unsigned, d) /\ unsigned.signature = NoValue
  BY AssembledIsSealed
<1>2. Sealed(unsigned)
  BY <1>1 DEF Sealed
<1>3. covered = [unsigned EXCEPT !.signature = NoValue] /\ env = [unsigned EXCEPT !.signature = signature]
  BY DEF CanonicalEnvelopeFor, Compose
<1>4. signature.over[2] = covered
  BY DEF Sign
<1> HIDE DEF unsigned, signature, covered, env
<1>5. BriefOf(covered, d) /\ EnclosureOf(covered, d)
  <2>1. /\ covered.brief = unsigned.brief /\ covered.brief_recipients = unsigned.brief_recipients
        /\ covered.enclosure = unsigned.enclosure
        /\ covered.enclosure_recipients = unsigned.enclosure_recipients
    BY <1>1, <1>3, FieldWritten
  <2> QED
    BY <1>1, <2>1, HalvesKept
<1>6. DOMAIN env = EnvelopeFields /\ env.signature = signature /\ BriefOf(env, d) /\ EnclosureOf(env, d)
  <2>1. /\ DOMAIN env = EnvelopeFields /\ env.signature = signature
        /\ env.brief = unsigned.brief /\ env.brief_recipients = unsigned.brief_recipients
        /\ env.enclosure = unsigned.enclosure /\ env.enclosure_recipients = unsigned.enclosure_recipients
    BY <1>1, <1>3, FieldWritten
  <2> QED
    BY <1>1, <2>1, HalvesKept
<1>7. Sealed(env)
  BY <1>4, <1>5, <1>6 DEF Sealed
<1> QED
  BY <1>2, <1>7 DEF unsigned, env

\* fillPadding leaves the halves and the signature as they are.
LEMMA PaddedIsSealed ==
  ASSUME NEW env, Sealed(env), NEW x
  PROVE  Sealed([env EXCEPT !.padding = x])
<1> DEFINE other == [env EXCEPT !.padding = x]
<1>1. DOMAIN env = EnvelopeFields
  BY DEF Sealed
<1>2. /\ DOMAIN other = EnvelopeFields /\ other.signature = env.signature
      /\ other.brief = env.brief /\ other.brief_recipients = env.brief_recipients
      /\ other.enclosure = env.enclosure /\ other.enclosure_recipients = env.enclosure_recipients
  BY <1>1, FieldWritten
<1> HIDE DEF other
<1>3. \A d : (BriefOf(env, d) => BriefOf(other, d)) /\ (EnclosureOf(env, d) => EnclosureOf(other, d))
  BY <1>1, <1>2, HalvesKept
<1>4. Sealed(other)
  BY <1>2, <1>3 DEF Sealed
<1> QED
  BY <1>4 DEF other

\* A relay can only exchange whole halves.
LEMMA MixedIsSealed ==
  ASSUME NEW e, Sealed(e), NEW f, Sealed(f), NEW parts \in SUBSET RelayedParts
  PROVE  Sealed(Mix(e, f, UNION parts))
<1> DEFINE env == Mix(e, f, UNION parts)
<1>1. \A part \in parts : part \in {{"id"}, {"brief", "brief_recipients"}, {"enclosure", "enclosure_recipients"}}
  BY DEF RelayedParts
<1>2. /\ "brief" \in UNION parts <=> "brief_recipients" \in UNION parts
      /\ "enclosure" \in UNION parts <=> "enclosure_recipients" \in UNION parts
      /\ "signature" \notin UNION parts
  BY <1>1
<1>3. DOMAIN e = EnvelopeFields /\ DOMAIN f = EnvelopeFields
  BY DEF Sealed
<1>4. /\ DOMAIN env = EnvelopeFields
      /\ \A name \in EnvelopeFields : env[name] = IF name \in UNION parts THEN f[name] ELSE e[name]
  BY <1>3 DEF Mix
<1>5. /\ "brief" \in EnvelopeFields /\ "brief_recipients" \in EnvelopeFields /\ "signature" \in EnvelopeFields
      /\ "enclosure" \in EnvelopeFields /\ "enclosure_recipients" \in EnvelopeFields
  BY DEF EnvelopeFields
<1> HIDE DEF env
<1>6. env.signature = e.signature
  BY <1>2, <1>4, <1>5
<1>7. \/ env.brief = e.brief /\ env.brief_recipients = e.brief_recipients
      \/ env.brief = f.brief /\ env.brief_recipients = f.brief_recipients
  BY <1>2, <1>4, <1>5
<1>8. \/ env.enclosure = e.enclosure /\ env.enclosure_recipients = e.enclosure_recipients
      \/ env.enclosure = f.enclosure /\ env.enclosure_recipients = f.enclosure_recipients
  BY <1>2, <1>4, <1>5
<1>9. \E d \in Drafts : BriefOf(env, d)
  BY <1>7 DEF Sealed, BriefOf
<1>10. \E d \in Drafts : EnclosureOf(env, d)
  BY <1>8 DEF Sealed, EnclosureOf
<1>11. Sealed(env)
  BY <1>4, <1>6, <1>9, <1>10 DEF Sealed
<1> QED
  BY <1>11 DEF env

\* What opens as a brief was sealed as one, under the id the envelope has.
LEMMA BriefOpened ==
  ASSUME NEW env, NEW d, BriefOf(env, d), NEW i \in BriefOpeners(env)
  PROVE  d.id = env.id /\ env.brief.text = d.brief /\ Candidates[i] \in d.briefRecipients
BY DEF BriefOf, BriefOpeners, OpensBrief, CanAEADOpen, AEADSeal

\* What a candidate opens as an enclosure was sealed for it as one.
LEMMA EnclosureOpened ==
  ASSUME NEW env, NEW d, EnclosureOf(env, d), NEW i \in EnclosureOpeners(env)
  PROVE  i \in DOMAIN Candidates /\ env.enclosure.text = d.enclosure /\ Candidates[i] \in d.enclosureRecipients
BY DEF EnclosureOf, EnclosureOpeners, OpensEnclosure, CanAEADOpen, AEADSeal

\* If a candidate opens the brief, there is a first one that does.
LEMMA FirstOpener ==
  ASSUME NEW env, BriefOpeners(env) # {}
  PROVE  Min(BriefOpeners(env)) \in BriefOpeners(env)
<1>1. BriefOpeners(env) \in SUBSET Nat
  BY EnvelopeAssumption DEF BriefOpeners
<1> QED
  BY <1>1, Least

\* Every step of composing, relaying and opening keeps MailInv.
LEMMA EnvelopeStep ==
  ASSUME MailInv, [EnvelopeNext]_envelopeVars
  PROVE  MailInv'
<1>1. mailClock \in Nat /\ DOMAIN desk = {"draft", "env", "padded", "submitted", "due"}
  BY DEF MailInv
<1>2. CASE UNCHANGED envelopeVars
  BY <1>2 DEF envelopeVars, MailInv, OpenedAsComposed
\* A step of the sender at its desk.
<1>3. ASSUME UNCHANGED <<mailClock, wire, lookup, opened>>,
             DOMAIN desk' = {"draft", "env", "padded", "submitted", "due"},
             desk' # NoDesk => desk'.draft \in Drafts /\ Sealed(desk'.env)
      PROVE  MailInv'
  BY <1>3 DEF MailInv, OpenedAsComposed
<1>4. DOMAIN NoDesk = {"draft", "env", "padded", "submitted", "due"} /\ NoDesk.due = -1
  BY DEF NoDesk
<1>5. ASSUME NEW d \in Drafts, StartDraft(d) PROVE MailInv'
  <2> DEFINE env == Assemble(d, CurrentKey, 0)
  <2>1. Sealed(env) /\ desk' = [NoDesk EXCEPT !.draft = d, !.env = env]
    BY <1>5, ComposedIsSealed DEF StartDraft
  <2> HIDE DEF env
  <2>2. DOMAIN desk' = DOMAIN NoDesk /\ desk'.draft = d /\ desk'.env = env
    BY <1>4, <2>1
  <2> QED
    BY <1>3, <1>4, <1>5, <2>1, <2>2 DEF StartDraft
<1>6. CASE PadDraft
  <2> DEFINE size == PickBucket(BaselineSize(desk.env), EnvelopeCeiling, desk.draft.buckets) - BaselineSize(desk.env)
             env == [desk.env EXCEPT !.padding = size]
  <2>1. Sealed(desk.env) /\ desk.draft \in Drafts /\ desk' = [desk EXCEPT !.env = env, !.padded = TRUE]
    BY <1>6 DEF PadDraft, FillPadding, MailInv
  <2> HIDE DEF size
  <2>2. Sealed(env)
    BY <2>1, PaddedIsSealed
  <2> HIDE DEF env
  <2>3. DOMAIN desk' = DOMAIN desk /\ desk'.draft = desk.draft /\ desk'.env = env
    BY <1>1, <2>1
  <2> QED
    BY <1>1, <1>3, <1>6, <2>1, <2>2, <2>3 DEF PadDraft
<1>7. CASE SealDraft
  <2> DEFINE env == Compose(desk.draft, CurrentKey, desk.env.padding)
  <2>1. desk.draft \in Drafts /\ desk' = [desk EXCEPT !.env = env]
    BY <1>7 DEF SealDraft, MailInv
  <2>2. Sealed(env)
    BY <2>1, ComposedIsSealed
  <2> HIDE DEF env
  <2>3. DOMAIN desk' = DOMAIN desk /\ desk'.draft = desk.draft /\ desk'.env = env
    BY <1>1, <2>1
  <2> QED
    BY <1>1, <1>3, <1>7, <2>1, <2>2, <2>3 DEF SealDraft
<1>8. ASSUME NEW delay, SubmitDraft(delay) PROVE MailInv'
  <2>1. desk # NoDesk /\ desk' = [desk EXCEPT !.submitted = mailClock, !.due = mailClock + delay]
    BY <1>8 DEF SubmitDraft
  <2>2. DOMAIN desk' = DOMAIN desk /\ desk'.draft = desk.draft /\ desk'.env = desk.env
    BY <1>1, <2>1
  <2> QED
    BY <1>1, <1>3, <1>8, <2>1, <2>2 DEF SubmitDraft, MailInv
<1>9. CASE Depart
  <2>1. desk # NoDesk
    BY <1>1, <1>4, <1>9 DEF Depart
  <2>2. Sealed(desk.env) /\ wire' = wire \cup {desk.env} /\ desk' = NoDesk
        /\ UNCHANGED <<mailClock, lookup, opened>>
    BY <1>9, <2>1 DEF Depart, MailInv
  <2>3. \A env \in wire' : Sealed(env)
    BY <2>2 DEF MailInv
  <2> QED
    BY <1>4, <2>2, <2>3 DEF MailInv, OpenedAsComposed
<1>10. CASE AbandonDraft
  BY <1>3, <1>4, <1>10 DEF AbandonDraft
<1>11. CASE MailTick
  <2>1. mailClock' = mailClock + 1 /\ UNCHANGED <<desk, wire, lookup, opened>>
    BY <1>11 DEF MailTick
  <2> QED
    BY <1>1, <2>1 DEF MailInv, OpenedAsComposed
<1>12. ASSUME NEW forget, RotateSealKey(forget) PROVE MailInv'
  BY <1>12 DEF RotateSealKey, MailInv, OpenedAsComposed
<1>13. ASSUME NEW e \in wire, NEW f \in wire, NEW parts \in SUBSET RelayedParts, Alter(e, f, UNION parts)
       PROVE  MailInv'
  <2> DEFINE env == Mix(e, f, UNION parts)
  <2>1. wire' = (wire \ {e}) \cup {env} /\ UNCHANGED <<mailClock, desk, lookup, opened>>
    BY <1>13 DEF Alter
  <2>2. Sealed(env)
    BY MixedIsSealed DEF MailInv
  <2> HIDE DEF env
  <2>3. \A x \in wire' : Sealed(x)
    BY <2>1, <2>2 DEF MailInv
  <2> QED
    BY <2>1, <2>3 DEF MailInv, OpenedAsComposed
<1>14. ASSUME NEW env \in wire, PreviewBrief(env) PROVE MailInv'
  <2>1. PICK d \in Drafts : BriefOf(env, d)
    BY DEF MailInv, Sealed
  <2>2. PICK i \in BriefOpeners(env) : i = Min(BriefOpeners(env))
    BY <1>14, FirstOpener DEF PreviewBrief
  <2>3. opened' = [env |-> env, verified |-> FALSE, candidate |-> Candidates[i],
                   brief |-> env.brief.text, enclosure |-> ""]
    BY <1>14, <2>2 DEF PreviewBrief
  <2>4. d.id = env.id /\ env.brief.text = d.brief /\ Candidates[i] \in d.briefRecipients
    BY <2>1, BriefOpened
  <2>5. /\ opened'.env = env /\ ~opened'.verified /\ opened'.candidate = Candidates[i]
        /\ opened'.brief = env.brief.text
    BY <2>3
  <2>6. OpenedAsComposed'
    BY <2>4, <2>5 DEF OpenedAsComposed
  <2> QED
    BY <1>14, <2>6 DEF PreviewBrief, MailInv
<1>15. ASSUME NEW env \in wire, BeginOpenAndVerify(env) PROVE MailInv'
  BY <1>15 DEF BeginOpenAndVerify, MailInv, OpenedAsComposed
<1>16. CASE KeyResolved
  <2> DEFINE covered == CanonicalEnvelopeFor(lookup)
  <2>1. Sealed(lookup) /\ lookup # NoEnvelope
    BY <1>16 DEF KeyResolved, MailInv
  <2>2. lookup.signature # NoValue /\ lookup.signature.over[2] = covered
    BY <1>16 DEF KeyResolved, VerifySealSignature, Sign
  <2>3. PICK d \in Drafts : BriefOf(lookup.signature.over[2], d) /\ EnclosureOf(lookup.signature.over[2], d)
    BY <2>1, <2>2 DEF Sealed
  <2>4. BriefOf(lookup, d) /\ EnclosureOf(lookup, d)
    <3>1. /\ covered.brief = lookup.brief /\ covered.brief_recipients = lookup.brief_recipients
          /\ covered.enclosure = lookup.enclosure /\ covered.enclosure_recipients = lookup.enclosure_recipients
      BY <2>1, FieldWritten DEF Sealed, CanonicalEnvelopeFor
    <3> HIDE DEF covered
    <3> QED
      BY <2>2, <2>3, <3>1 DEF BriefOf, EnclosureOf
  <2>5. PICK i \in BriefOpeners(lookup) : i = Min(BriefOpeners(lookup))
    BY <1>16, FirstOpener DEF KeyResolved
  <2>6. PICK j : j \in EnclosureOpeners(lookup)
    BY <1>16 DEF KeyResolved
  <2>7. /\ d.id = lookup.id /\ lookup.brief.text = d.brief /\ Candidates[i] \in d.briefRecipients
        /\ j \in DOMAIN Candidates /\ lookup.enclosure.text = d.enclosure /\ Candidates[j] \in d.enclosureRecipients
    BY <2>4, <2>6, BriefOpened, EnclosureOpened
  <2>8. opened' = [env |-> lookup, verified |-> TRUE, candidate |-> Candidates[i],
                   brief |-> lookup.brief.text, enclosure |-> lookup.enclosure.text]
    BY <1>16, <2>5 DEF KeyResolved
  <2>9. /\ opened'.env = lookup /\ opened'.candidate = Candidates[i]
        /\ opened'.brief = lookup.brief.text /\ opened'.enclosure = lookup.enclosure.text
    BY <2>8
  <2>10. OpenedAsComposed'
    BY <2>7, <2>9 DEF OpenedAsComposed
  <2> QED
    BY <1>16, <2>10 DEF KeyResolved, MailInv
<1>17. CASE OpenRefused
  BY <1>17 DEF OpenRefused, MailInv, OpenedAsComposed
<1> QED
  BY <1>2, <1>5, <1>6, <1>7, <1>8, <1>9, <1>10, <1>11, <1>12, <1>13, <1>14, <1>15, <1>16, <1>17 DEF EnvelopeNext

\* What a client opens was composed, under the id it came with and for a key of
\* its own; and what it opens verified was composed together, however a relay
\* mixed the envelopes and whenever the domain changed its key (openAndVerify).
THEOREM OpensWhatWasComposed == EnvelopeSpec => []OpenedAsComposed
<1>1. EnvelopeInit => MailInv
  BY DEF EnvelopeInit, MailInv, OpenedAsComposed, NoDesk
<1>2. MailInv => OpenedAsComposed
  BY DEF MailInv
<1> QED
  BY <1>1, <1>2, EnvelopeStep, PTL DEF EnvelopeSpec

-----------------------------------------------------------------------------
(* What leaves is what was planned *)

\* What an envelope's length may become when it is padded.
BucketsOf(d) ==
  {EnvelopeCeiling} \cup
    (IF d.buckets = <<>> THEN PowerOfTwoBuckets ELSE {d.buckets[i] : i \in DOMAIN d.buckets})

LEMMA BucketsAreNat == PowerOfTwoBuckets \in SUBSET Nat
<1>1. ASSUME NEW k \in 0..18 PROVE 2^k \in Nat
  <2>1. k \in {0, 1, 2, 3, 4, 5, 6, 7, 8, 9, 10, 11, 12, 13, 14, 15, 16, 17, 18}
    OBVIOUS
  <2>2. /\ 2^0 \in Nat /\ 2^1 \in Nat /\ 2^2 \in Nat /\ 2^3 \in Nat /\ 2^4 \in Nat
        /\ 2^5 \in Nat /\ 2^6 \in Nat /\ 2^7 \in Nat /\ 2^8 \in Nat /\ 2^9 \in Nat
        /\ 2^10 \in Nat /\ 2^11 \in Nat /\ 2^12 \in Nat /\ 2^13 \in Nat /\ 2^14 \in Nat
        /\ 2^15 \in Nat /\ 2^16 \in Nat /\ 2^17 \in Nat /\ 2^18 \in Nat
    OBVIOUS
  <2> QED
    BY <2>1, <2>2, Zenon
<1> QED
  BY <1>1 DEF PowerOfTwoBuckets, MinEnvelopeSizeBucket

\* pickBucket: a size within the ceiling has a bucket, and it is one of those planned.
LEMMA PickIsPlanned ==
  ASSUME NEW d \in Drafts, NEW size \in Nat, size <= EnvelopeCeiling
  PROVE  /\ PickBucket(size, EnvelopeCeiling, d.buckets) \in BucketsOf(d)
         /\ PickBucket(size, EnvelopeCeiling, d.buckets) \in Int
<1> DEFINE pick == PickBucket(size, EnvelopeCeiling, d.buckets)
<1>1. EnvelopeCeiling \in Int /\ d.buckets \in Seq(Int)
  BY PaddingAssumption
<1>2. CASE d.buckets = <<>>
  <2> DEFINE fits == {b \in PowerOfTwoBuckets : b >= size}
  <2>1. fits \in SUBSET Nat
    BY BucketsAreNat
  <2>2. LargestBucket \in PowerOfTwoBuckets
    <3>1. 18 \in 0..18
      OBVIOUS
    <3> QED
      BY <3>1 DEF LargestBucket, PowerOfTwoBuckets
  <2>3. LargestBucket >= size
    <3>1. LargestBucket \in Nat
      BY <2>2, BucketsAreNat
    <3> QED
      BY <1>1, <3>1, PaddingAssumption
  <2>4. fits # {}
    BY <2>2, <2>3
  <2>5. Min(fits) \in fits
    BY <2>1, <2>4, Least
  <2>6. Min(fits) \in PowerOfTwoBuckets /\ Min(fits) \in Nat
    BY <2>1, <2>5
  <2>7. pick = SelectSizeBucket(size, EnvelopeCeiling)
    BY <1>2 DEF PickBucket
  <2>8. pick = Min(fits) \/ pick = EnvelopeCeiling
    BY <2>7 DEF SelectSizeBucket
  <2> QED
    BY <1>1, <1>2, <2>6, <2>8 DEF BucketsOf
<1>3. CASE d.buckets # <<>>
  <2> DEFINE fitting == {i \in DOMAIN d.buckets : d.buckets[i] >= size}
  <2>1. DOMAIN d.buckets = 1..Len(d.buckets) /\ Len(d.buckets) \in Nat
    BY <1>1, LenProperties
  <2>2. fitting \in SUBSET Nat
    BY <2>1
  <2>3. pick = IF fitting = {} THEN EnvelopeCeiling ELSE d.buckets[Min(fitting)]
    BY <1>3 DEF PickBucket
  <2>4. fitting # {} => Min(fitting) \in DOMAIN d.buckets
    <3>1. fitting # {} => Min(fitting) \in fitting
      BY <2>2, Least
    <3> QED
      BY <3>1
  <2> HIDE DEF fitting, pick
  <2>5. fitting # {} => d.buckets[Min(fitting)] \in Int
    BY <1>1, <2>1, <2>4, ElementOfSeq
  <2>6. pick \in Int
    BY <1>1, <2>3, <2>5
  <2>7. pick \in BucketsOf(d)
    BY <1>3, <2>3, <2>4 DEF BucketsOf
  <2> QED
    BY <2>6, <2>7 DEF pick
<1> QED
  BY <1>2, <1>3

\* The lesser of two numbers, as sendTimeDelay takes it.
LEMMA LeastOfTwo ==
  ASSUME NEW a \in Int, NEW b \in Int
  PROVE  Min({a, b}) \in Int /\ Min({a, b}) <= b
<1> DEFINE S == {a, b}
<1>1. \E x \in S : \A y \in S : x <= y
  <2>1. CASE a <= b
    BY <2>1
  <2>2. CASE b <= a
    BY <2>2
  <2> QED
    BY <2>1, <2>2
<1>2. b \in S /\ \A x \in S : x \in Int
  OBVIOUS
<1> HIDE DEF S
<1>3. Min(S) \in S /\ \A y \in S : Min(S) <= y
  BY <1>1, Zenon DEF Min
<1> QED
  BY <1>2, <1>3 DEF S

\* Padding and signing write one field, and the length is not among them.
LEMMA SizesKept ==
  ASSUME NEW env, DOMAIN env = EnvelopeFields, NEW x
  PROVE  /\ LET other == [env EXCEPT !.padding = x] IN
            other.length = env.length /\ other.expires = env.expires /\ other.padding = x
         /\ LET other == [env EXCEPT !.signature = x] IN
            other.length = env.length /\ other.expires = env.expires /\ other.padding = env.padding
BY DEF EnvelopeFields

\* The envelope on the desk has the length and the expiry of its draft, padded
\* or not yet; padded it has the length of a bucket, and once a delay is drawn
\* it is due before it expires if it was submitted before.
Planned(draft, env, padded, submitted, due) ==
  /\ env.length = draft.length /\ env.expires = draft.expires /\ env.padding \in Int
  /\ padded => WireSize(env) \in BucketsOf(draft)
  /\ submitted < env.expires => due < env.expires

PlanInv ==
  /\ desk # NoDesk => Planned(desk.draft, desk.env, desk.padded, desk.submitted, desk.due)
  /\ LeavesAsPlanned

\* Every step of the sender keeps to the plan, and no other step touches it.
LEMMA PlanStep ==
  ASSUME MailInv, PlanInv, [EnvelopeNext]_envelopeVars
  PROVE  PlanInv'
<1>1. mailClock \in Nat /\ DOMAIN desk = {"draft", "env", "padded", "submitted", "due"}
  BY DEF MailInv
<1>2. ASSUME UNCHANGED <<desk, departed>> PROVE PlanInv'
  BY <1>2 DEF PlanInv, LeavesAsPlanned
\* A step of the sender at its desk.
<1>3. ASSUME UNCHANGED departed,
             desk' # NoDesk => Planned(desk'.draft, desk'.env, desk'.padded, desk'.submitted, desk'.due)
      PROVE  PlanInv'
  <2>1. LeavesAsPlanned'
    BY <1>3 DEF PlanInv, LeavesAsPlanned
  <2> QED
    BY <1>3, <2>1 DEF PlanInv
<1>4. desk # NoDesk =>
        /\ desk.draft \in Drafts /\ DOMAIN desk.env = EnvelopeFields
        /\ Planned(desk.draft, desk.env, desk.padded, desk.submitted, desk.due)
  BY DEF MailInv, PlanInv, Sealed
<1>5. \A d \in Drafts : d.length \in Nat /\ d.expires \in Int
  BY PaddingAssumption
<1>6. ASSUME NEW d \in Drafts, NEW key, NEW padding
      PROVE  /\ DOMAIN Assemble(d, key, padding) = EnvelopeFields
             /\ Assemble(d, key, padding).length = d.length
             /\ Assemble(d, key, padding).expires = d.expires
             /\ Assemble(d, key, padding).padding = padding
  <2>1. DOMAIN Assemble(d, key, padding) = EnvelopeFields
    BY AssembledIsSealed
  <2> QED
    BY <2>1 DEF Assemble
<1>7. ASSUME NEW d \in Drafts, StartDraft(d) PROVE PlanInv'
  <2> DEFINE env == Assemble(d, CurrentKey, 0)
  <2>1. desk' = [NoDesk EXCEPT !.draft = d, !.env = env] /\ UNCHANGED departed
    BY <1>7 DEF StartDraft
  <2>2. env.length = d.length /\ env.expires = d.expires /\ env.padding = 0
    BY <1>6
  <2> HIDE DEF env
  <2>3. /\ desk'.draft = d /\ desk'.env = env /\ desk'.padded = FALSE
        /\ desk'.submitted = -1 /\ desk'.due = -1
    BY <2>1 DEF NoDesk
  <2>4. Planned(d, env, FALSE, -1, -1)
    BY <2>2 DEF Planned
  <2> QED
    BY <1>3, <2>1, <2>3, <2>4
<1>8. CASE PadDraft
  <2> DEFINE draft == desk.draft
             old == desk.env
             size == BaselineSize(old)
             bucket == PickBucket(size, EnvelopeCeiling, draft.buckets)
             env == FillPadding(old, draft.buckets)
  <2>1. /\ desk # NoDesk /\ desk' = [desk EXCEPT !.env = env, !.padded = TRUE] /\ UNCHANGED departed
        /\ size <= EnvelopeCeiling
    BY <1>8 DEF PadDraft, CanPad
  <2>2. draft \in Drafts /\ DOMAIN old = EnvelopeFields /\ Planned(draft, old, desk.padded, desk.submitted, desk.due)
    BY <1>4, <2>1
  <2>3. old.length \in Nat /\ old.length = draft.length /\ old.expires = draft.expires
    BY <1>5, <2>2 DEF Planned
  <2>4. size = old.length + 132 /\ size \in Nat
    <3>1. [old EXCEPT !.padding = 0].length = old.length /\ [old EXCEPT !.padding = 0].padding = 0
      BY <2>2, SizesKept
    <3>2. size = old.length + 88 + 44 + 0
      BY <3>1 DEF BaselineSize, WireSize, Ed25519SignatureB64Len, HMACSHA256B64Len
    <3> QED
      BY <2>3, <3>2
  <2>5. bucket \in BucketsOf(draft) /\ bucket \in Int
    BY <2>1, <2>2, <2>4, PickIsPlanned
  <2>6. env = [old EXCEPT !.padding = bucket - size]
    BY DEF FillPadding
  <2> HIDE DEF env, bucket, size
  <2>7. env.length = old.length /\ env.expires = old.expires /\ env.padding = bucket - size
    BY <2>2, <2>6, SizesKept
  <2>8. WireSize(env) = bucket
    BY <2>3, <2>4, <2>5, <2>7 DEF WireSize, Ed25519SignatureB64Len, HMACSHA256B64Len
  <2>9. env.padding \in Int
    BY <2>4, <2>5, <2>7
  <2>10. Planned(draft, env, TRUE, desk.submitted, desk.due)
    BY <2>2, <2>5, <2>7, <2>8, <2>9 DEF Planned
  <2>11. /\ desk'.draft = draft /\ desk'.env = env /\ desk'.padded = TRUE
         /\ desk'.submitted = desk.submitted /\ desk'.due = desk.due
    BY <1>1, <2>1
  <2> QED
    BY <1>3, <2>1, <2>10, <2>11
<1>9. CASE SealDraft
  <2> DEFINE draft == desk.draft
             old == desk.env
             unsigned == Assemble(draft, CurrentKey, old.padding)
             signature == Sign(CurrentKey, <<"SEMP-ENVELOPE:", CanonicalEnvelopeFor(unsigned)>>)
             env == Compose(draft, CurrentKey, old.padding)
  <2>1. desk # NoDesk /\ desk' = [desk EXCEPT !.env = env] /\ UNCHANGED departed
    BY <1>9 DEF SealDraft
  <2>2. draft \in Drafts /\ Planned(draft, old, desk.padded, desk.submitted, desk.due)
    BY <1>4, <2>1
  <2>3. /\ DOMAIN unsigned = EnvelopeFields /\ unsigned.length = draft.length
        /\ unsigned.expires = draft.expires /\ unsigned.padding = old.padding
    BY <1>6, <2>2
  <2>4. env = [unsigned EXCEPT !.signature = signature]
    BY DEF Compose
  <2> HIDE DEF env, unsigned, signature
  <2>5. env.length = unsigned.length /\ env.expires = unsigned.expires /\ env.padding = unsigned.padding
    BY <2>3, <2>4, SizesKept
  <2>6. env.length = old.length /\ env.expires = old.expires /\ env.padding = old.padding
    BY <2>2, <2>3, <2>5 DEF Planned
  <2>7. WireSize(env) = WireSize(old)
    BY <2>6 DEF WireSize
  <2>8. Planned(draft, env, desk.padded, desk.submitted, desk.due)
    BY <2>2, <2>6, <2>7 DEF Planned
  <2>9. /\ desk'.draft = draft /\ desk'.env = env /\ desk'.padded = desk.padded
        /\ desk'.submitted = desk.submitted /\ desk'.due = desk.due
    BY <1>1, <2>1
  <2> QED
    BY <1>3, <2>1, <2>8, <2>9
<1>10. ASSUME NEW delay \in 0..DelayCeiling, SubmitDraft(delay) PROVE PlanInv'
  <2> DEFINE draft == desk.draft
             env == desk.env
             window == env.expires - mailClock
  <2>1. /\ desk # NoDesk /\ delay \in SendTimeDelays(draft, env) /\ UNCHANGED departed
        /\ desk' = [desk EXCEPT !.submitted = mailClock, !.due = mailClock + delay]
    BY <1>10 DEF SubmitDraft
  <2>2. draft \in Drafts /\ Planned(draft, env, desk.padded, desk.submitted, desk.due)
    BY <1>4, <2>1
  <2>3. env.expires \in Int /\ DelayCeiling \in Int
    BY <1>5, <2>2, EnvelopeAssumption DEF Planned
  <2>4. delay = 0 \/ delay < Min({DelayCeiling, window})
    BY <2>1 DEF SendTimeDelays
  <2> DEFINE ceiling == Min({DelayCeiling, window})
  <2>5. window \in Int
    BY <1>1, <2>3
  <2>6. ceiling \in Int /\ ceiling <= window
    BY <2>3, <2>5, LeastOfTwo
  <2> HIDE DEF ceiling
  <2>7. mailClock < env.expires => mailClock + delay < env.expires
    <3>1. delay = 0 \/ delay < ceiling
      BY <2>4 DEF ceiling
    <3> QED
      BY <1>1, <2>3, <2>6, <3>1
  <2>8. Planned(draft, env, desk.padded, mailClock, mailClock + delay)
    BY <2>2, <2>7 DEF Planned
  <2>9. /\ desk'.draft = draft /\ desk'.env = env /\ desk'.padded = desk.padded
        /\ desk'.submitted = mailClock /\ desk'.due = mailClock + delay
    BY <1>1, <2>1
  <2> QED
    BY <1>3, <2>1, <2>8, <2>9
<1>11. CASE Depart
  <2>1. NoDesk.due = -1
    BY DEF NoDesk
  <2>2. desk # NoDesk /\ desk' = NoDesk
    BY <1>1, <1>11, <2>1 DEF Depart
  <2>3. Planned(desk.draft, desk.env, desk.padded, desk.submitted, desk.due)
    BY <1>4, <2>2
  <2>4. departed' = [draft |-> desk.draft, env |-> desk.env, padded |-> desk.padded,
                     submitted |-> desk.submitted, due |-> desk.due]
    BY <1>11 DEF Depart
  <2>5. /\ departed'.draft = desk.draft /\ departed'.env = desk.env /\ departed'.padded = desk.padded
        /\ departed'.submitted = desk.submitted /\ departed'.due = desk.due
    BY <2>4
  <2>6. LeavesAsPlanned'
    <3>1. /\ departed'.padded => WireSize(departed'.env) \in BucketsOf(departed'.draft)
          /\ departed'.submitted < departed'.env.expires => departed'.due < departed'.env.expires
      BY <2>3, <2>5 DEF Planned
    <3>2. WireSize(departed.env)' = WireSize(departed'.env)
      BY DEF WireSize
    <3> QED
      BY <3>1, <3>2 DEF LeavesAsPlanned, BucketsOf
  <2> QED
    BY <2>2, <2>6 DEF PlanInv
<1>12. CASE AbandonDraft
  BY <1>3, <1>12 DEF AbandonDraft
<1>13. ASSUME NEW e, NEW f, NEW parts, Alter(e, f, parts) PROVE PlanInv'
  BY <1>2, <1>13 DEF Alter
<1>14. ASSUME NEW env, PreviewBrief(env) \/ BeginOpenAndVerify(env) PROVE PlanInv'
  BY <1>2, <1>14 DEF PreviewBrief, BeginOpenAndVerify
<1>15. ASSUME NEW forget, RotateSealKey(forget) PROVE PlanInv'
  BY <1>2, <1>15 DEF RotateSealKey
<1>16. CASE MailTick \/ KeyResolved \/ OpenRefused
  BY <1>2, <1>16 DEF MailTick, KeyResolved, OpenRefused
<1>17. CASE UNCHANGED envelopeVars
  BY <1>2, <1>17 DEF envelopeVars
<1> QED
  BY <1>7, <1>8, <1>9, <1>10, <1>11, <1>12, <1>13, <1>14, <1>15, <1>16, <1>17 DEF EnvelopeNext

\* What leaves after fillPadding, sealed before or after it, has exactly the
\* length of a bucket, and the delay sendTimeDelay drew for it ended before it
\* expires.
THEOREM LeavesAsPlannedHolds == EnvelopeSpec => []LeavesAsPlanned
<1>1. EnvelopeInit => MailInv /\ PlanInv
  BY DEF EnvelopeInit, MailInv, OpenedAsComposed, PlanInv, LeavesAsPlanned, NoDesk
<1>2. PlanInv => LeavesAsPlanned
  BY DEF PlanInv
<1> QED
  BY <1>1, <1>2, EnvelopeStep, PlanStep, PTL DEF EnvelopeSpec

-----------------------------------------------------------------------------
(* Partitions *)

\* The letter the i-th of c ranges starts at, and how many it has.
RangeStart(c, i) == (i - 1) * (26 \div c) + AtMost(i - 1, 26 % c) + 1
RangeWidth(c, i) == 26 \div c + (IF i <= 26 % c THEN 1 ELSE 0)

Ranges(c) == [i \in 1..c |-> <<RangeStart(c, i), AtMost(RangeStart(c, i) + RangeWidth(c, i) - 1, 26)>>]

\* Every letter is in a range.
LEMMA LettersDivided ==
  ASSUME NEW c \in 1..26
  PROVE  26 \div c \in Nat /\ 26 % c \in Nat /\ 26 % c < c /\ c * (26 \div c) + (26 % c) = 26
<1>1. \A a \in Int : \A b \in Nat \ {0} : a = b * (a \div b) + (a % b) /\ a % b \in 0..(b - 1)
  OBVIOUS
<1>2. 26 \div c \in Int /\ 26 % c \in 0..(c - 1) /\ c * (26 \div c) + (26 % c) = 26
  BY <1>1
<1>3. 26 \div c \in Nat
  OBVIOUS
<1> QED
  BY <1>2, <1>3

LEMMA RangesAdjoin ==
  ASSUME NEW c \in 1..26
  PROVE  /\ \A i \in 1..c : RangeStart(c, i) \in Int /\ RangeWidth(c, i) \in Int
         /\ RangeStart(c, 1) = 1
         /\ \A i \in 2..c : RangeStart(c, i) = RangeStart(c, i - 1) + RangeWidth(c, i - 1)
         /\ RangeStart(c, c) + RangeWidth(c, c) = 27
<1> DEFINE w == 26 \div c
           r == 26 % c
<1>1. w \in Nat /\ r \in Nat /\ r < c /\ c * w + r = 26 /\ c \in Nat
  BY LettersDivided
<1>2. /\ \A i : RangeStart(c, i) = (i - 1) * w + (IF i - 1 < r THEN i - 1 ELSE r) + 1
      /\ \A i : RangeWidth(c, i) = w + (IF i <= r THEN 1 ELSE 0)
  BY DEF RangeStart, RangeWidth, AtMost
<1> HIDE DEF w, r
<1>3. \A i \in 1..c : (i - 1) * w \in Int /\ i * w \in Int /\ i * w = (i - 1) * w + w
  BY <1>1
<1>3a. \A i \in 2..c : (i - 1) * w = (i - 2) * w + w /\ i - 1 \in 1..c /\ (i - 1) - 1 = i - 2
  BY <1>1
<1>4. \A i \in 1..c : RangeStart(c, i) \in Int /\ RangeWidth(c, i) \in Int
  BY <1>1, <1>2, <1>3
<1>5. RangeStart(c, 1) = 1
  BY <1>1, <1>2
<1>6. ASSUME NEW i \in 2..c
      PROVE  RangeStart(c, i) = RangeStart(c, i - 1) + RangeWidth(c, i - 1)
  <2>1. RangeStart(c, i) = (i - 1) * w + (IF i - 1 < r THEN i - 1 ELSE r) + 1
    BY <1>2
  <2>2. RangeStart(c, i - 1) = (i - 2) * w + (IF i - 2 < r THEN i - 2 ELSE r) + 1
    BY <1>2, <1>3a
  <2>3. RangeWidth(c, i - 1) = w + (IF i - 1 <= r THEN 1 ELSE 0)
    BY <1>2
  <2>4. \A a, b, v \in Int : \A j, s \in Int : a = b + v =>
          a + (IF j - 1 < s THEN j - 1 ELSE s) + 1
            = b + (IF j - 2 < s THEN j - 2 ELSE s) + 1 + (v + (IF j - 1 <= s THEN 1 ELSE 0))
    OBVIOUS
  <2>5. (i - 1) * w \in Int /\ (i - 2) * w \in Int /\ w \in Int /\ i \in Int /\ r \in Int /\ (i - 1) * w = (i - 2) * w + w
    BY <1>1, <1>3a
  <2> QED
    BY <2>1, <2>2, <2>3, <2>4, <2>5
<1>7. RangeStart(c, c) + RangeWidth(c, c) = 27
  <2>1. c * w = (c - 1) * w + w /\ (c - 1) * w \in Int /\ c * w \in Int
    BY <1>1, <1>3
  <2>2. RangeStart(c, c) = (c - 1) * w + r + 1 /\ RangeWidth(c, c) = w
    BY <1>1, <1>2
  <2> QED
    BY <1>1, <2>1, <2>2
<1> QED
  BY <1>4, <1>5, <1>6, <1>7

\* What defaultAlphaRanges computes range by range, in one step.
LEMMA RangesAre ==
  ASSUME NEW n \in Nat \ {0}
  PROVE  /\ AtMost(n, 26) \in 1..26
         /\ DefaultAlphaRanges(n) = Ranges(AtMost(n, 26))
<1> DEFINE c == AtMost(n, 26)
           Starts(s) == s = [i \in 1..c |-> IF i = 1 THEN 1 ELSE s[i - 1] + RangeWidth(c, i - 1)]
           first == [i \in 1..c |-> RangeStart(c, i)]
           start == CHOOSE s : Starts(s)
<1>1. c \in 1..26
  BY DEF AtMost
<1>2. /\ RangeStart(c, 1) = 1
      /\ \A i \in 2..c : RangeStart(c, i) = RangeStart(c, i - 1) + RangeWidth(c, i - 1)
  BY <1>1, RangesAdjoin
<1>3. \A i \in 2..c : i - 1 \in 1..c
  BY <1>1
<1> HIDE DEF c
<1>4. Starts(first)
  BY <1>1, <1>2, <1>3
<1>5. ASSUME NEW s, Starts(s) PROVE s = first
  <2> DEFINE Wrong == {i \in 1..c : s[i] # RangeStart(c, i)}
  <2>1. /\ DOMAIN s = 1..c /\ s = [i \in 1..c |-> s[i]]
        /\ \A i \in 1..c : s[i] = IF i = 1 THEN 1 ELSE s[i - 1] + RangeWidth(c, i - 1)
    BY <1>5
  <2>2. ASSUME Wrong # {} PROVE FALSE
    <3>1. Wrong \in SUBSET Nat
      BY <1>1
    <3> HIDE DEF Wrong
    <3>2. PICK i \in Wrong : \A j \in Wrong : i <= j
      BY <2>2, <3>1, Least
    <3> USE DEF Wrong
    <3>3. i # 1
      BY <1>1, <1>2, <2>1, <3>2
    <3>4. i \in 2..c /\ i - 1 \in 1..c /\ ~(i <= i - 1)
      BY <1>1, <3>2, <3>3
    <3>5. s[i - 1] = RangeStart(c, i - 1)
      BY <3>2, <3>4
    <3>6. s[i] = s[i - 1] + RangeWidth(c, i - 1)
      BY <2>1, <3>2, <3>3
    <3>7. RangeStart(c, i) = RangeStart(c, i - 1) + RangeWidth(c, i - 1)
      BY <1>2, <3>4
    <3> QED
      BY <3>2, <3>5, <3>6, <3>7
  <2>3. \A i \in 1..c : s[i] = RangeStart(c, i)
    BY <2>2
  <2> QED
    BY <2>1, <2>3
<1>6. Starts(start)
  BY <1>4, Zenon
<1>7. start = first
  BY <1>5, <1>6, Zenon
<1>8. DefaultAlphaRanges(n) =
        [i \in 1..c |-> <<start[i], AtMost(start[i] + RangeWidth(c, i) - 1, 26)>>]
  <2>1. ~(n <= 0)
    OBVIOUS
  <2> QED
    BY <2>1, Zenon DEF DefaultAlphaRanges, RangeWidth, c
<1> HIDE DEF start
<1>9. \A i \in 1..c : start[i] = RangeStart(c, i)
  BY <1>7
<1> QED
  BY <1>1, <1>8, <1>9 DEF Ranges, c

\* resolveAlpha sends a letter to a range that contains it, and any other
\* character to the last range, which ends with the last letter.
LEMMA AlphaNameContains ==
  ASSUME NEW n \in Nat \ {0}, NEW char \in 1..27
  PROVE  LET name == AlphaName(DefaultAlphaRanges(n), char) IN
         IF char \in Letters THEN char \in name[1]..name[2] ELSE name[2] = 26
<1> DEFINE c == AtMost(n, 26)
           R == DefaultAlphaRanges(n)
           ends(i) == AtMost(RangeStart(c, i) + RangeWidth(c, i) - 1, 26)
           hits == {i \in DOMAIN R : char >= R[i][1] /\ char <= R[i][2]}
<1>1. c \in 1..26 /\ R = Ranges(c)
  BY RangesAre
<1>2. /\ \A i \in 1..c : RangeStart(c, i) \in Int /\ RangeWidth(c, i) \in Int
      /\ RangeStart(c, 1) = 1
      /\ \A i \in 2..c : RangeStart(c, i) = RangeStart(c, i - 1) + RangeWidth(c, i - 1)
      /\ RangeStart(c, c) + RangeWidth(c, c) = 27
  BY <1>1, RangesAdjoin
<1>3. /\ DOMAIN R = 1..c /\ Len(R) = c
      /\ \A i \in 1..c : R[i][1] = RangeStart(c, i) /\ R[i][2] = ends(i)
  <2>1. /\ DOMAIN Ranges(c) = 1..c
        /\ \A i \in 1..c : Ranges(c)[i] = <<RangeStart(c, i), ends(i)>>
    BY DEF Ranges
  <2>2. Len(Ranges(c)) = c
    BY <1>1 DEF Ranges
  <2> QED
    BY <1>1, <2>1, <2>2
<1>4. \A i \in 1..c : ends(i) \in Int /\ ends(i) <= 26 /\ (ends(i) = 26 \/ ends(i) = RangeStart(c, i) + RangeWidth(c, i) - 1)
  BY <1>2 DEF AtMost
<1>5. ends(c) = 26
  BY <1>1, <1>2 DEF AtMost
<1> HIDE DEF c, R, ends
<1>6. CASE char \in Letters
  <2> DEFINE Later == {i \in 1..c : RangeStart(c, i) > char}
  <2>1. char \in 1..26
    BY <1>6 DEF Letters
  <2>2. \E i \in 1..c : char >= RangeStart(c, i) /\ char <= ends(i)
    <3>1. CASE Later = {}
      <4>1. c \in 1..c /\ ~(RangeStart(c, c) > char) /\ RangeStart(c, c) \in Int
        BY <1>1, <1>2, <3>1
      <4> QED
        BY <1>5, <2>1, <4>1
    <3>2. CASE Later # {}
      <4>1. Later \in SUBSET Nat
        BY <1>1
      <4> HIDE DEF Later
      <4>2. PICK j \in Later : \A y \in Later : j <= y
        BY <3>2, <4>1, Least
      <4> USE DEF Later
      <4>3. j \in 1..c /\ RangeStart(c, j) > char
        BY <4>2
      <4>4. j # 1
        BY <1>2, <2>1, <4>3
      <4>5. j \in 2..c /\ j - 1 \in 1..c /\ ~(j <= j - 1)
        BY <1>1, <4>3, <4>4
      <4>6. ~(RangeStart(c, j - 1) > char)
        BY <4>2, <4>5
      <4>7. RangeStart(c, j - 1) <= char
        BY <1>2, <2>1, <4>5, <4>6
      <4>8. RangeStart(c, j) = RangeStart(c, j - 1) + RangeWidth(c, j - 1)
        BY <1>2, <4>5
      <4>9. char <= ends(j - 1)
        BY <1>2, <1>4, <2>1, <4>3, <4>5, <4>8
      <4> QED
        BY <2>1, <4>5, <4>7, <4>9, <1>2
    <3> QED
      BY <3>1, <3>2
  <2>3. hits # {}
    BY <1>3, <2>2
  <2>4. hits \in SUBSET Nat
    BY <1>1, <1>3
  <2> DEFINE least == CHOOSE i \in hits : \A j \in hits : i <= j
  <2>5. AlphaName(R, char) = R[least]
    BY <2>3, Zenon DEF AlphaName
  <2>6. least \in hits
    <3> HIDE DEF hits
    <3>1. PICK i \in hits : \A j \in hits : i <= j
      BY <2>3, <2>4, Least
    <3> QED
      BY <3>1, Zenon
  <2> HIDE DEF least
  <2>7. char >= R[least][1] /\ char <= R[least][2] /\ R[least][1] \in Int /\ R[least][2] \in Int
    BY <1>2, <1>3, <1>4, <2>6
  <2>8. char \in R[least][1]..R[least][2]
    BY <2>7
  <2> QED
    BY <1>6, <2>5, <2>8, Zenon DEF R
<1>7. CASE char \notin Letters
  <2>1. char = 27
    BY <1>7 DEF Letters
  <2>2. hits = {}
    BY <1>3, <1>4, <2>1
  <2>3. AlphaName(R, char) = R[Len(R)]
    BY <2>2, Zenon DEF AlphaName
  <2>4. c \in 1..c
    BY <1>1
  <2>5. R[Len(R)][2] = 26
    <3>1. Len(R) = c /\ R[c][2] = ends(c)
      BY <1>3, <2>4, Zenon
    <3> QED
      BY <1>5, <3>1, Zenon
  <2> QED
    BY <1>7, <2>3, <2>5, Zenon DEF R
<1> QED
  BY <1>6, <1>7

\* The caller's records are the domain's, and the last answer is what its
\* record named.
RouteInv ==
  /\ {partition, fetched} \subseteq PartitionRecords \cup {NoPartition}
  /\ route # NoRoute =>
       /\ route.under \in PartitionRecords /\ CanResolve(route.under)
       /\ route.user \in PartitionUsers
       /\ route.server = ServiceName(route.under, route.user)

\* Every step of the domain and of its caller keeps RouteInv.
LEMMA RouteStep ==
  ASSUME RouteInv, [PartitionNext]_partitionVars
  PROVE  RouteInv'
<1>1. CASE UNCHANGED partitionVars
  BY <1>1 DEF partitionVars, RouteInv
<1>2. ASSUME NEW record \in PartitionRecords, PublishPartition(record) PROVE RouteInv'
  BY <1>2 DEF PublishPartition, RouteInv
<1>3. CASE FetchPartition
  BY <1>3 DEF FetchPartition, RouteInv
<1>4. ASSUME NEW user \in PartitionUsers, ResolvePartition(user) PROVE RouteInv'
  <2>1. /\ CanResolve(fetched) /\ UNCHANGED <<partition, fetched>>
        /\ route' = [user |-> user, under |-> fetched, then |-> partition, server |-> ServiceName(fetched, user)]
    BY <1>4 DEF ResolvePartition
  <2>2. ~CanResolve(NoPartition)
    BY DEF CanResolve, NoPartition
  <2>3. fetched \in PartitionRecords
    BY <2>1, <2>2 DEF RouteInv
  <2> QED
    BY <2>1, <2>3 DEF RouteInv
<1> QED
  BY <1>1, <1>2, <1>3, <1>4 DEF PartitionNext

\* resolvePartition(): however old the record a caller holds, a letter is sent
\* to a server that has it, any other character to the one with the last
\* letter; under a hash partition the record must be current.
THEOREM RoutedToTheHolderHolds == PartitionSpec => []RoutedToTheHolder
<1>1. PartitionInit => RouteInv
  BY DEF PartitionInit, RouteInv
<1>2. RouteInv /\ [PartitionNext]_partitionVars => RouteInv'
  BY RouteStep
<1>3. RouteInv => RoutedToTheHolder
  <2> SUFFICES ASSUME RouteInv, route # NoRoute PROVE RoutedToTheHolder
    BY DEF RoutedToTheHolder
  <2>1. /\ route.under.strategy \in {"alpha", "hash"} /\ route.under.servers \in Nat \ {0}
        /\ route.user \in PartitionUsers /\ route.user.char \in 1..27
        /\ route.server = ServiceName(route.under, route.user)
    BY PartitionAssumption DEF RouteInv, CanResolve
  <2>2. CASE route.under.strategy = "alpha"
    <3> DEFINE name == AlphaName(DefaultAlphaRanges(route.under.servers), route.user.char)
    <3>1. route.server = name
      BY <2>1, <2>2 DEF ServiceName
    <3>2. IF route.user.char \in Letters THEN route.user.char \in name[1]..name[2] ELSE name[2] = 26
      <4>1. route.under.servers \in Nat \ {0} /\ route.user.char \in 1..27
        BY <2>1
      <4> QED
        BY <4>1, AlphaNameContains
    <3> HIDE DEF name
    <3>3. IF route.user.char \in Letters THEN route.user.char \in route.server[1]..route.server[2]
          ELSE route.server[2] = 26
      BY <3>1, <3>2
    <3> QED
      BY <2>2, <3>3, Zenon DEF RoutedToTheHolder
  <2>3. CASE route.under.strategy # "alpha"
    <3>1. route.server = HashName(route.user, route.under.servers)
      BY <2>1, <2>3 DEF ServiceName
    <3>2. route.under = route.then => route.server = HashName(route.user, route.then.servers)
      BY <3>1
    <3> QED
      BY <2>3, <3>2, SMT DEF RoutedToTheHolder
  <2> QED
    BY <2>2, <2>3
<1> QED
  BY <1>1, <1>2, <1>3, PTL DEF PartitionSpec

-----------------------------------------------------------------------------
(* The verifiers of the transparency log undo its prover *)

\* Counting up from 0.
LEMMA CountingUp ==
  ASSUME NEW n \in Nat, NEW S, 0 \in S, \A k \in 0..(n - 1) : k \in S => k + 1 \in S
  PROVE  \A k \in 0..n : k \in S
<1> DEFINE Below == {p \in Nat \X Nat : p[1] < p[2]}
           Bad == {k \in 0..n : k \notin S}
<1>1. IsWellFoundedOn(Below, Nat)
  BY NatLessThanWellFounded DEF OpToRel
<1>2. \A x, y \in Nat : y < x => <<y, x>> \in Below
  OBVIOUS
<1> HIDE DEF Below
<1>3. SUFFICES ASSUME Bad # {} PROVE FALSE
  OBVIOUS
<1>4. Bad \in SUBSET Nat
  OBVIOUS
<1>5. PICK k \in Bad : \A y \in Bad : ~(<<y, k>> \in Below)
  BY <1>1, <1>3, <1>4, WFMin
<1>6. k \in 0..n /\ k # 0 /\ k \notin S
  BY <1>5
<1>7. k - 1 \in 0..(n - 1) /\ k - 1 \in 0..n /\ (k - 1) + 1 = k /\ <<k - 1, k>> \in Below
  BY <1>2, <1>6
<1>8. k - 1 \in S
  BY <1>5, <1>7
<1> QED
  BY <1>6, <1>7, <1>8
-----------------------------------------------------------------------------
(* Powers of two *)

\* The powers of two: what 1 and doubling reach, so that the least set with
\* them is an induction.
Powers == {p \in Nat : \A S \in SUBSET Nat : 1 \in S /\ (\A x \in S : 2 * x \in S) => p \in S}

\* Induction over the powers of two.
LEMMA PowersInduct ==
  ASSUME NEW S \in SUBSET Nat, 1 \in S, \A x \in S : 2 * x \in S
  PROVE  \A p \in Powers : p \in S
BY DEF Powers

\* They are positive, and doubling keeps them.
LEMMA PowersClosed == 1 \in Powers /\ \A p \in Powers : p \in Nat /\ p >= 1 /\ 2 * p \in Powers
<1>1. 1 \in Powers
  BY DEF Powers
<1>2. ASSUME NEW p \in Powers PROVE p \in Nat /\ 2 * p \in Powers
  BY DEF Powers
<1>3. \A p \in Powers : p >= 1
  <2> DEFINE S == {p \in Nat : p >= 1}
  <2>1. \A p \in Powers : p \in S
    <3>1. S \in SUBSET Nat /\ 1 \in S /\ \A x \in S : 2 * x \in S
      OBVIOUS
    <3> HIDE DEF S
    <3> QED
      BY <3>1, PowersInduct
  <2> QED
    BY <2>1
<1> QED
  BY <1>1, <1>2, <1>3

\* A power of two is 1 or the double of one.
LEMMA PowerCases == \A p \in Powers : p = 1 \/ \E q \in Powers : p = 2 * q
<1> DEFINE S == {p \in Powers : p = 1 \/ \E q \in Powers : p = 2 * q}
<1>1. S \in SUBSET Nat /\ 1 \in S /\ \A x \in S : 2 * x \in S
  BY PowersClosed
<1> HIDE DEF S
<1>2. \A p \in Powers : p \in S
  BY <1>1, PowersInduct
<1> QED
  BY <1>2 DEF S

\* Of two powers of two the larger is a multiple of twice the smaller.
LEMMA PowerMultiple ==
  \A p, q \in Powers : p < q => \E c \in Nat : c >= 1 /\ q = c * (2 * p)
<1> DEFINE S == {p \in Powers : \A q \in Powers : p < q => \E c \in Nat : c >= 1 /\ q = c * (2 * p)}
<1>1. 1 \in S
  <2>1. ASSUME NEW q \in Powers, 1 < q PROVE \E c \in Nat : c >= 1 /\ q = c * (2 * 1)
    <3>1. PICK c \in Powers : q = 2 * c
      BY <2>1, PowerCases
    <3>2. c \in Nat /\ c >= 1 /\ q = c * (2 * 1)
      BY <3>1, PowersClosed
    <3> QED
      BY <3>2
  <2> QED
    BY <2>1, PowersClosed
<1>2. ASSUME NEW p \in S PROVE 2 * p \in S
  <2>1. p \in Powers /\ \A q \in Powers : p < q => \E c \in Nat : c >= 1 /\ q = c * (2 * p)
    OBVIOUS
  <2>2. p \in Nat /\ p >= 1 /\ 2 * p \in Powers
    BY <2>1, PowersClosed
  <2>3. ASSUME NEW q \in Powers, 2 * p < q PROVE \E c \in Nat : c >= 1 /\ q = c * (2 * (2 * p))
    <3>1. q \in Nat /\ q # 1
      BY <2>2, <2>3, PowersClosed
    <3>2. PICK h \in Powers : q = 2 * h
      BY <3>1, PowerCases
    <3>3. h \in Nat /\ p < h
      BY <2>2, <2>3, <3>2, PowersClosed
    <3>4. PICK c \in Nat : c >= 1 /\ h = c * (2 * p)
      BY <2>1, <3>3
    <3>5. q = c * (2 * (2 * p))
      BY <2>2, <3>2, <3>4
    <3> QED
      BY <3>4, <3>5
  <2> QED
    BY <2>2, <2>3
<1>3. S \in SUBSET Nat
  BY PowersClosed
<1> HIDE DEF S
<1>4. \A p \in Powers : p \in S
  BY <1>1, <1>2, <1>3, PowersInduct
<1> QED
  BY <1>4 DEF S

\* Induction from all smaller numbers.
LEMMA FromSmaller ==
  ASSUME NEW n \in Nat, NEW S, \A k \in 0..n : (\A j \in 0..(k - 1) : j \in S) => k \in S
  PROVE  \A k \in 0..n : k \in S
<1> DEFINE T == {k \in 0..n : \A j \in 0..k : j \in S}
<1>1. 0 \in T
  <2>1. 0 \in 0..n /\ (\A j \in 0..(0 - 1) : j \in S) /\ \A j \in 0..0 : j = 0
    OBVIOUS
  <2> QED
    BY <2>1
<1>2. \A k \in 0..(n - 1) : k \in T => k + 1 \in T
  <2> SUFFICES ASSUME NEW k \in 0..(n - 1), k \in T PROVE k + 1 \in T
    OBVIOUS
  <2>1. k + 1 \in 0..n /\ (k + 1) - 1 = k /\ \A j \in 0..(k + 1) : j \in 0..k \/ j = k + 1
    OBVIOUS
  <2> QED
    BY <2>1
<1> HIDE DEF T
<1>3. \A k \in 0..n : k \in T
  BY <1>1, <1>2, CountingUp
<1>4. \A k \in 0..n : k \in 0..k
  OBVIOUS
<1> QED
  BY <1>3, <1>4 DEF T

\* The loop of largestPowerOfTwoLessThan, from every k.
LEMMA DoublingExists ==
  ASSUME NEW n \in Nat
  PROVE  \E f \in [1..n -> Nat] : \A k \in 1..n : f[k] = IF 2 * k < n THEN f[2 * k] ELSE k
<1> DEFINE Good(f, j) == \A k \in 1..n : k > n - j => f[k] = IF 2 * k < n THEN f[2 * k] ELSE k
           S == {j \in 0..n : \E f \in [1..n -> Nat] : Good(f, j)}
<1>1. 0 \in S
  <2>1. [k \in 1..n |-> k] \in [1..n -> Nat] /\ Good([k \in 1..n |-> k], 0)
    OBVIOUS
  <2> HIDE DEF Good
  <2> QED
    BY <2>1
<1>2. ASSUME NEW j \in 0..(n - 1), j \in S PROVE j + 1 \in S
  <2>1. PICK f \in [1..n -> Nat] : Good(f, j)
    BY <1>2
  <2> DEFINE c == n - j
             value == IF 2 * c < n THEN f[2 * c] ELSE c
             g == [f EXCEPT ![c] = value]
  <2>2. c \in 1..n /\ value \in Nat
    OBVIOUS
  <2>3. g \in [1..n -> Nat] /\ g[c] = value /\ \A k \in 1..n : k # c => g[k] = f[k]
    BY <2>2
  <2>4. ASSUME NEW k \in 1..n, k > n - (j + 1) PROVE g[k] = IF 2 * k < n THEN g[2 * k] ELSE k
    <3>1. 2 * k # c /\ (2 * k < n => 2 * k \in 1..n)
      BY <2>2, <2>4
    <3>2. 2 * k < n => g[2 * k] = f[2 * k]
      BY <2>3, <3>1
    <3>3. CASE k = c
      BY <2>3, <3>2, <3>3
    <3>4. CASE k # c
      <4>1. k > n - j
        BY <2>4, <3>4
      <4>2. f[k] = IF 2 * k < n THEN f[2 * k] ELSE k
        BY <2>1, <4>1
      <4> QED
        BY <2>3, <3>2, <3>4, <4>2
    <3> QED
      BY <3>3, <3>4
  <2>5. Good(g, j + 1)
    BY <2>4
  <2> HIDE DEF g, Good
  <2> QED
    BY <2>3, <2>5
<1> HIDE DEF S
<1>3. n \in S
  <2>1. \A j \in 0..(n - 1) : j \in S => j + 1 \in S
    BY <1>2
  <2>2. \A k \in 0..n : k \in S
    BY <1>1, <2>1, CountingUp, Zenon
  <2> QED
    BY <2>2
<1>4. PICK f \in [1..n -> Nat] : Good(f, n)
  BY <1>3 DEF S
<1> QED
  BY <1>4

\* The code's k, where a tree of n leaves divides.
K(n) == LargestPowerOfTwoLessThan(n)

\* largestPowerOfTwoLessThan() is a power of two, below n and at least half of it.
LEMMA KIs ==
  ASSUME NEW n \in Nat, n > 1
  PROVE  K(n) \in Powers /\ K(n) \in Nat /\ K(n) >= 1 /\ K(n) < n /\ n <= 2 * K(n)
<1> DEFINE Body(f) == [k \in 1..n |-> IF 2 * k < n THEN f[2 * k] ELSE k]
           from == CHOOSE f : f = Body(f)
<1>1. K(n) = from[1]
  <2>1. K(n) = IF n <= 1 THEN 0 ELSE from[1]
    BY Zenon DEF K, LargestPowerOfTwoLessThan
  <2> HIDE DEF from
  <2> QED
    BY <2>1
<1>2. from = Body(from)
  <2>1. PICK f \in [1..n -> Nat] : \A k \in 1..n : f[k] = IF 2 * k < n THEN f[2 * k] ELSE k
    BY DoublingExists
  <2>2. f = Body(f)
    BY <2>1
  <2> HIDE DEF Body
  <2> QED
    BY <2>2
<1> HIDE DEF from
<1>3. \A k \in 1..n : from[k] = IF 2 * k < n THEN from[2 * k] ELSE k
  BY <1>2
<1> DEFINE Found(k) == k < n /\ k \in Powers => from[k] \in Powers /\ from[k] < n /\ n <= 2 * from[k]
           S == {j \in 0..n : \A k \in 1..n : k > n - j => Found(k)}
<1>4. 0 \in S
  OBVIOUS
<1>5. ASSUME NEW j \in 0..(n - 1), j \in S PROVE j + 1 \in S
  <2> SUFFICES ASSUME NEW k \in 1..n, k > n - (j + 1), k < n, k \in Powers
               PROVE  from[k] \in Powers /\ from[k] < n /\ n <= 2 * from[k]
    BY <1>5
  <2>1. CASE 2 * k < n
    <3>1. 2 * k \in 1..n /\ 2 * k > n - j /\ 2 * k \in Powers
      BY <2>1, PowersClosed
    <3>2. Found(2 * k)
      BY <1>5, <3>1
    <3> QED
      BY <1>3, <2>1, <3>1, <3>2
  <2>2. CASE ~(2 * k < n)
    <3>1. from[k] = k
      BY <1>3, <2>2
    <3> QED
      BY <2>2, <3>1
  <2> QED
    BY <2>1, <2>2
<1> HIDE DEF S
<1>6. n \in S
  <2>1. \A j \in 0..(n - 1) : j \in S => j + 1 \in S
    BY <1>5
  <2>2. \A k \in 0..n : k \in S
    BY <1>4, <2>1, CountingUp, Zenon
  <2> QED
    BY <2>2
<1>7. Found(1)
  <2>1. 1 \in 1..n /\ 1 > n - n
    OBVIOUS
  <2> QED
    BY <1>6, <2>1 DEF S
<1> QED
  BY <1>1, <1>7, PowersClosed

\* The code's k is the only power of two with k < n <= 2k.
LEMMA KIsOnly ==
  ASSUME NEW n \in Nat, NEW p \in Powers, p < n, n <= 2 * p
  PROVE  n > 1 /\ K(n) = p
<1>1. p \in Nat /\ p >= 1 /\ n > 1
  BY PowersClosed
<1>2. K(n) \in Powers /\ K(n) \in Nat /\ K(n) >= 1 /\ K(n) < n /\ n <= 2 * K(n)
  BY <1>1, KIs
<1>3. ASSUME NEW a \in Powers, NEW b \in Powers, a < b, b < 2 * a PROVE FALSE
  <2>1. PICK c \in Nat : c >= 1 /\ b = c * (2 * a)
    BY <1>3, PowerMultiple
  <2>2. a \in Nat /\ c * (2 * a) >= 2 * a
    BY <2>1, PowersClosed
  <2> QED
    BY <1>3, <2>1, <2>2
<1>4. ~(p < K(n)) /\ ~(K(n) < p)
  BY <1>1, <1>2, <1>3
<1> QED
  BY <1>1, <1>2, <1>4
-----------------------------------------------------------------------------
(* The two loops of the verifier that shift both positions *)

\* The two positions of the verifier.
Positions == [fn : Nat, sn : Nat]

\* f follows the positions down, halving both, while the first is in E.
Halves(a, c, E, b, f) ==
  \A x \in 0..a : \A y \in 0..c : f[x][y] = IF x \in E THEN f[x \div 2][y \div 2] ELSE b[x][y]

\* There is such a function, whatever it is outside E.
LEMMA Halved ==
  ASSUME NEW a \in Nat, NEW c \in Nat, NEW E \in SUBSET (Nat \ {0}), NEW b \in [0..a -> [0..c -> Positions]]
  PROVE  \E f \in [0..a -> [0..c -> Positions]] : Halves(a, c, E, b, f)
<1> DEFINE F == [0..a -> [0..c -> Positions]]
           Good(f, j) == \A x \in 0..a : \A y \in 0..c :
                           x <= j => f[x][y] = IF x \in E THEN f[x \div 2][y \div 2] ELSE b[x][y]
           S == {j \in 0..a : \E f \in F : Good(f, j)}
<1>1. 0 \in S
  <2>1. Good(b, 0)
    OBVIOUS
  <2> HIDE DEF Good
  <2> QED
    BY <2>1
<1>2. ASSUME NEW j \in 0..(a - 1), j \in S PROVE j + 1 \in S
  <2>1. PICK f \in [0..a -> [0..c -> Positions]] : Good(f, j)
    BY <1>2
  <2> DEFINE k == j + 1
             value == [y \in 0..c |-> IF k \in E THEN f[k \div 2][y \div 2] ELSE b[k][y]]
             g == [f EXCEPT ![k] = value]
  <2>2. k \in 0..a /\ k \div 2 \in 0..a /\ \A y \in 0..c : y \div 2 \in 0..c
    OBVIOUS
  <2>3. value \in [0..c -> Positions]
    BY <2>2
  <2>4. g \in [0..a -> [0..c -> Positions]] /\ g[k] = value /\ \A x \in 0..a : x # k => g[x] = f[x]
    <3> HIDE DEF value
    <3> QED
      BY <2>2, <2>3
  <2>5. ASSUME NEW x \in 0..a, NEW y \in 0..c, x <= j + 1
        PROVE  g[x][y] = IF x \in E THEN g[x \div 2][y \div 2] ELSE b[x][y]
    <3>1. x \div 2 \in 0..a /\ (x # 0 => x \div 2 # k)
      BY <2>5
    <3>2. x \in E => g[x \div 2] = f[x \div 2]
      BY <2>4, <3>1
    <3>3. CASE x = k
      <4>1. value[y] = IF k \in E THEN f[k \div 2][y \div 2] ELSE b[k][y]
        OBVIOUS
      <4> HIDE DEF value, g, k
      <4> QED
        BY <2>4, <3>2, <3>3, <4>1
    <3>4. CASE x # k
      <4>1. x <= j
        BY <2>5, <3>4
      <4>2. f[x][y] = IF x \in E THEN f[x \div 2][y \div 2] ELSE b[x][y]
        BY <2>1, <4>1
      <4> HIDE DEF value, g, k
      <4> QED
        BY <2>4, <3>2, <3>4, <4>2
    <3> QED
      BY <3>3, <3>4
  <2>6. Good(g, j + 1)
    BY <2>5
  <2>7. g \in F
    BY <2>4
  <2> HIDE DEF g, Good, F
  <2> QED
    BY <2>6, <2>7
<1> HIDE DEF S
<1>3. a \in S
  <2>1. \A j \in 0..(a - 1) : j \in S => j + 1 \in S
    BY <1>2
  <2>2. \A k \in 0..a : k \in S
    BY <1>1, <2>1, CountingUp, Zenon
  <2> QED
    BY <2>2
<1>4. PICK f \in F : Good(f, a)
  BY <1>3 DEF S
<1>5. Halves(a, c, E, b, f)
  BY <1>4 DEF Halves
<1>6. f \in [0..a -> [0..c -> Positions]]
  OBVIOUS
<1> HIDE DEF F, Good
<1> QED
  BY <1>5, <1>6

\* The function of SkipZeros.
SkipBody(fn, sn, f) ==
  [x \in 0..fn |-> [y \in 0..sn |-> IF x # 0 /\ ~Odd(x) THEN f[x \div 2][y \div 2]
                                    ELSE [fn |-> x \div 2, sn |-> y \div 2]]]
Skip(fn, sn) == CHOOSE f : f = SkipBody(fn, sn, f)

\* The function of SkipZeros exists, so it is what its definition says.
SkipsBy(fn, sn, skip) ==
  /\ SkipZeros(fn, sn) = skip[fn][sn]
  /\ \A x \in 0..fn : \A y \in 0..sn :
       skip[x][y] = IF x # 0 /\ ~Odd(x) THEN skip[x \div 2][y \div 2] ELSE [fn |-> x \div 2, sn |-> y \div 2]

LEMMA SkipIs ==
  ASSUME NEW fn \in Nat, NEW sn \in Nat
  PROVE  SkipsBy(fn, sn, Skip(fn, sn))
<1>1. SkipZeros(fn, sn) = Skip(fn, sn)[fn][sn]
  BY Zenon DEF SkipZeros, Skip, SkipBody
<1>2. \E f : f = SkipBody(fn, sn, f)
  <2> DEFINE E == {x \in Nat : x # 0 /\ ~Odd(x)}
             b == [x \in 0..fn |-> [y \in 0..sn |-> [fn |-> x \div 2, sn |-> y \div 2]]]
  <2>1. E \in SUBSET (Nat \ {0})
    OBVIOUS
  <2>2. b \in [0..fn -> [0..sn -> Positions]]
    <3>1. \A x \in 0..fn : \A y \in 0..sn : [fn |-> x \div 2, sn |-> y \div 2] \in Positions
      BY DEF Positions
    <3> QED
      BY <3>1
  <2> HIDE DEF E, b
  <2>3. PICK f \in [0..fn -> [0..sn -> Positions]] :
          Halves(fn, sn, E, b, f)
    BY <2>1, <2>2, Halved, Zenon
  <2>4. \A x \in 0..fn : \A y \in 0..sn : b[x][y] = [fn |-> x \div 2, sn |-> y \div 2]
    BY DEF b
  <2>5. \A x \in 0..fn : x \in E <=> x # 0 /\ ~Odd(x)
    BY DEF E
  <2>6. ASSUME NEW x \in 0..fn
        PROVE  f[x] = [y \in 0..sn |-> IF x # 0 /\ ~Odd(x) THEN f[x \div 2][y \div 2]
                                       ELSE [fn |-> x \div 2, sn |-> y \div 2]]
    <3>1. \A y \in 0..sn : f[x][y] = IF x # 0 /\ ~Odd(x) THEN f[x \div 2][y \div 2]
                                     ELSE [fn |-> x \div 2, sn |-> y \div 2]
      BY <2>3, <2>4, <2>5, Zenon DEF Halves
    <3>2. f[x] \in [0..sn -> Positions]
      OBVIOUS
    <3>3. f[x] = [y \in 0..sn |-> f[x][y]]
      BY <3>2
    <3> QED
      BY <3>1, <3>3, Zenon
  <2>7. f = [x \in 0..fn |-> f[x]]
    BY <2>3
  <2>8. f = SkipBody(fn, sn, f)
    BY <2>6, <2>7, Zenon DEF SkipBody
  <2> QED
    BY <2>8
<1>3. Skip(fn, sn) = SkipBody(fn, sn, Skip(fn, sn))
  BY <1>2, Zenon DEF Skip
<1> HIDE DEF Skip
<1> DEFINE s == Skip(fn, sn)
<1>4. \A x \in 0..fn : \A y \in 0..sn :
        SkipBody(fn, sn, s)[x][y] = IF x # 0 /\ ~Odd(x) THEN s[x \div 2][y \div 2]
                                    ELSE [fn |-> x \div 2, sn |-> y \div 2]
  BY DEF SkipBody
<1> QED
  BY <1>1, <1>3, <1>4, Zenon DEF SkipsBy

\* From an odd position the loop goes up once.
LEMMA SkipOdd ==
  ASSUME NEW fn \in Nat, NEW sn \in Nat, Odd(fn)
  PROVE  SkipZeros(fn, sn) = [fn |-> fn \div 2, sn |-> sn \div 2]
<1>1. fn \in 0..fn /\ sn \in 0..sn
  OBVIOUS
<1>2. SkipsBy(fn, sn, Skip(fn, sn))
  BY SkipIs
<1> DEFINE skip == Skip(fn, sn)
<1> HIDE DEF skip
<1>3. SkipZeros(fn, sn) = skip[fn][sn]
  BY <1>2 DEF SkipsBy, skip
<1>4. \A x \in 0..fn : \A y \in 0..sn : Odd(x) => skip[x][y] = [fn |-> x \div 2, sn |-> y \div 2]
  BY <1>2 DEF SkipsBy, skip
<1> QED
  BY <1>1, <1>3, <1>4, Zenon

\* On the right edge of the tree the two positions are one: from a place that
\* has left siblings further up only, to the one above the next of them.
LEMMA SkipEven ==
  ASSUME NEW p \in Powers, NEW x \in Nat, Odd(x)
  PROVE  SkipZeros(p * x, p * x) = [fn |-> x \div 2, sn |-> x \div 2]
<1> DEFINE n == p * x
           s == Skip(n, n)
           S == {q \in Powers : q * x \in 0..n => s[q * x][q * x] = [fn |-> x \div 2, sn |-> x \div 2]}
<1>1. p \in Nat /\ n \in Nat /\ n \in 0..n
  BY PowersClosed
<1> HIDE DEF s, n
<1>0. SkipsBy(n, n, s)
  BY <1>1, SkipIs DEF s
<1>2. SkipZeros(n, n) = s[n][n]
  BY <1>0 DEF SkipsBy
<1>3. \A u \in 0..n : \A v \in 0..n : s[u][v] = IF u # 0 /\ ~Odd(u) THEN s[u \div 2][v \div 2]
                                   ELSE [fn |-> u \div 2, sn |-> v \div 2]
  BY <1>0 DEF SkipsBy
<1>4. 1 \in S
  <2>1. 1 * x = x
    OBVIOUS
  <2> QED
    BY <1>3, <2>1, PowersClosed
<1>5. ASSUME NEW q \in S PROVE 2 * q \in S
  <2>1. q \in Powers /\ q \in Nat /\ q >= 1 /\ 2 * q \in Powers
    BY PowersClosed
  <2> DEFINE y == q * x
  <2>2. y \in Nat /\ (2 * q) * x = 2 * y
    BY <2>1
  <2>3. y # 0
    <3>1. x >= 1
      BY DEF Odd
    <3>2. q * x >= 1
      BY <2>1, <3>1
    <3> QED
      BY <3>2
  <2>4. y \in 0..n => s[y][y] = [fn |-> x \div 2, sn |-> x \div 2]
    OBVIOUS
  <2> HIDE DEF y
  <2>5. ASSUME 2 * y \in 0..n PROVE s[2 * y][2 * y] = [fn |-> x \div 2, sn |-> x \div 2]
    <3>1. y \in 0..n /\ 2 * y # 0 /\ ~Odd(2 * y) /\ (2 * y) \div 2 = y
      BY <1>1, <2>2, <2>3, <2>5 DEF Odd
    <3>2. s[2 * y][2 * y] = s[y][y]
      BY <1>3, <2>5, <3>1
    <3> QED
      BY <2>4, <3>1, <3>2
  <2> QED
    BY <2>1, <2>2, <2>5
<1>6. S \in SUBSET Nat
  BY PowersClosed
<1> HIDE DEF S
<1>7. p \in S
  BY <1>4, <1>5, <1>6, PowersInduct
<1>8. s[n][n] = [fn |-> x \div 2, sn |-> x \div 2]
  BY <1>1, <1>7 DEF S, n
<1> QED
  BY <1>2, <1>8 DEF n

\* The function of DropOnes.
DropBody(fn, sn, f) ==
  [x \in 0..fn |-> [y \in 0..sn |-> IF Odd(x) THEN f[x \div 2][y \div 2] ELSE [fn |-> x, sn |-> y]]]
Drop(fn, sn) == CHOOSE f : f = DropBody(fn, sn, f)

\* The function of DropOnes exists.
DropsBy(fn, sn, drop) ==
  /\ DropOnes(fn, sn) = drop[fn][sn]
  /\ \A x \in 0..fn : \A y \in 0..sn :
       drop[x][y] = IF Odd(x) THEN drop[x \div 2][y \div 2] ELSE [fn |-> x, sn |-> y]

LEMMA DropIs ==
  ASSUME NEW fn \in Nat, NEW sn \in Nat
  PROVE  DropsBy(fn, sn, Drop(fn, sn))
<1>1. DropOnes(fn, sn) = Drop(fn, sn)[fn][sn]
  BY Zenon DEF DropOnes, Drop, DropBody
<1>2. \E f : f = DropBody(fn, sn, f)
  <2> DEFINE E == {x \in Nat : Odd(x)}
             b == [x \in 0..fn |-> [y \in 0..sn |-> [fn |-> x, sn |-> y]]]
  <2>1. E \in SUBSET (Nat \ {0})
    BY DEF Odd
  <2>2. b \in [0..fn -> [0..sn -> Positions]]
    <3>1. \A x \in 0..fn : \A y \in 0..sn : [fn |-> x, sn |-> y] \in Positions
      BY DEF Positions
    <3> QED
      BY <3>1
  <2> HIDE DEF E, b
  <2>3. PICK f \in [0..fn -> [0..sn -> Positions]] : Halves(fn, sn, E, b, f)
    BY <2>1, <2>2, Halved, Zenon
  <2>4. \A x \in 0..fn : \A y \in 0..sn : b[x][y] = [fn |-> x, sn |-> y]
    BY DEF b
  <2>5. \A x \in 0..fn : x \in E <=> Odd(x)
    BY DEF E
  <2>6. ASSUME NEW x \in 0..fn
        PROVE  f[x] = [y \in 0..sn |-> IF Odd(x) THEN f[x \div 2][y \div 2] ELSE [fn |-> x, sn |-> y]]
    <3>1. \A y \in 0..sn : f[x][y] = IF Odd(x) THEN f[x \div 2][y \div 2] ELSE [fn |-> x, sn |-> y]
      BY <2>3, <2>4, <2>5, Zenon DEF Halves
    <3>2. f[x] \in [0..sn -> Positions]
      OBVIOUS
    <3>3. f[x] = [y \in 0..sn |-> f[x][y]]
      BY <3>2
    <3> QED
      BY <3>1, <3>3, Zenon
  <2>7. f = [x \in 0..fn |-> f[x]]
    BY <2>3
  <2>8. f = DropBody(fn, sn, f)
    BY <2>6, <2>7, Zenon DEF DropBody
  <2> QED
    BY <2>8
<1>3. Drop(fn, sn) = DropBody(fn, sn, Drop(fn, sn))
  BY <1>2, Zenon DEF Drop
<1> HIDE DEF Drop
<1> DEFINE s == Drop(fn, sn)
<1>4. \A x \in 0..fn : \A y \in 0..sn :
        DropBody(fn, sn, s)[x][y] = IF Odd(x) THEN s[x \div 2][y \div 2] ELSE [fn |-> x, sn |-> y]
  BY DEF DropBody
<1> QED
  BY <1>1, <1>3, <1>4, Zenon DEF DropsBy

\* The first position ends in as many ones as p has doublings: they are dropped.
LEMMA DropsOnes ==
  ASSUME NEW p \in Powers, NEW c \in Nat, ~Odd(c), NEW y \in Nat
  PROVE  \E sn \in Nat : /\ DropOnes((c * p + p) - 1, y) = [fn |-> c, sn |-> sn]
                         /\ sn * p <= y /\ y < sn * p + p
<1> DEFINE n == (c * p + p) - 1
           d == Drop(n, y)
           Dropped(q, x, v) == \E sn \in Nat : d[x][v] = [fn |-> c, sn |-> sn] /\ sn * q <= v /\ v < sn * q + q
           S == {q \in Powers : \A v \in 0..y : \A x \in 0..n : x + 1 = c * q + q => Dropped(q, x, v)}
<1>1. p \in Nat /\ p >= 1 /\ n \in Nat /\ n \in 0..n /\ n + 1 = c * p + p /\ y \in 0..y
  <2>1. p \in Nat /\ p >= 1
    BY PowersClosed
  <2>2. c * p \in Nat
    BY <2>1
  <2> QED
    BY <2>1, <2>2
<1> HIDE DEF d, n
<1>0. DropsBy(n, y, d)
  BY <1>1, DropIs DEF d
<1>2. DropOnes(n, y) = d[n][y]
  BY <1>0 DEF DropsBy
<1>3. \A x \in 0..n : \A v \in 0..y :
        d[x][v] = IF Odd(x) THEN d[x \div 2][v \div 2] ELSE [fn |-> x, sn |-> v]
  BY <1>0 DEF DropsBy
<1>4. 1 \in S
  <2> SUFFICES ASSUME NEW v \in 0..y, NEW x \in 0..n, x + 1 = c * 1 + 1 PROVE Dropped(1, x, v)
    BY PowersClosed
  <2>1. x = c
    BY <1>1
  <2>2. d[x][v] = [fn |-> c, sn |-> v]
    BY <1>3, <2>1
  <2>3. v \in Nat /\ v * 1 <= v /\ v < v * 1 + 1
    OBVIOUS
  <2> QED
    BY <2>2, <2>3
<1>5. ASSUME NEW q \in S PROVE 2 * q \in S
  <2>1. q \in Powers /\ q \in Nat /\ q >= 1 /\ 2 * q \in Powers
    BY PowersClosed
  <2>2. \A v \in 0..y : \A x \in 0..n : x + 1 = c * q + q => Dropped(q, x, v)
    OBVIOUS
  <2> SUFFICES ASSUME NEW v \in 0..y, NEW x \in 0..n, x + 1 = c * (2 * q) + 2 * q PROVE Dropped(2 * q, x, v)
    BY <2>1
  <2> DEFINE z == c * q
             a == x \div 2
             b == v \div 2
  <2>3. z \in Nat /\ c * (2 * q) = 2 * z
    BY <2>1
  <2>4. Odd(x) /\ a + 1 = z + q /\ a \in 0..n /\ b \in 0..y /\ (v = 2 * b \/ v = 2 * b + 1)
    <3> HIDE DEF z
    <3> DEFINE t == (z + q) - 1
    <3>1. x = 2 * t + 1 /\ t + 1 = z + q
      BY <2>1, <2>3, <1>1
    <3>2. t \in Nat
      BY <2>1, <2>3
    <3> HIDE DEF t
    <3>3. Odd(x) /\ x \div 2 = t /\ t \in 0..n
      BY <1>1, <3>1, <3>2 DEF Odd
    <3>4. v \div 2 \in 0..y /\ (v = 2 * (v \div 2) \/ v = 2 * (v \div 2) + 1)
      OBVIOUS
    <3> QED
      BY <3>1, <3>3, <3>4
  <2>5. Dropped(q, a, b)
    BY <2>2, <2>4
  <2>6. d[x][v] = d[a][b]
    BY <1>3, <2>4
  <2>7. PICK sn \in Nat : d[a][b] = [fn |-> c, sn |-> sn] /\ sn * q <= b /\ b < sn * q + q
    BY <2>5
  <2> DEFINE w == sn * q
  <2>8. w \in Nat /\ sn * (2 * q) = 2 * w
    BY <2>1
  <2>9. sn * (2 * q) <= v /\ v < sn * (2 * q) + 2 * q
    <3>1. w <= b /\ b < w + q /\ b \in Nat
      BY <2>4, <2>7
    <3> HIDE DEF w, b
    <3> QED
      BY <2>1, <2>4, <2>8, <3>1
  <2> QED
    BY <2>6, <2>7, <2>9
<1>6. S \in SUBSET Nat
  BY PowersClosed
<1> HIDE DEF S
<1>7. p \in S
  BY <1>4, <1>5, <1>6, PowersInduct
<1>8. Dropped(p, n, y)
  BY <1>1, <1>7 DEF S
<1> HIDE DEF Dropped
<1>9. \E sn \in Nat : d[n][y] = [fn |-> c, sn |-> sn] /\ sn * p <= y /\ y < sn * p + p
  BY <1>8 DEF Dropped
<1> QED
  BY <1>2, <1>9 DEF n
-----------------------------------------------------------------------------
(* The recursions over the tree *)

\* Both parts of a tree are smaller than it.
KSmaller(n) == K(n) \in 1..(n - 1) /\ n - K(n) \in 1..(n - 1)

\* The code's recursion ends.
LEMMA KIsSmaller == \A n \in Nat : n > 1 => KSmaller(n)
<1> SUFFICES ASSUME NEW n \in Nat, n > 1 PROVE KSmaller(n)
  OBVIOUS
<1>1. K(n) \in Nat /\ K(n) >= 1 /\ K(n) < n
  BY KIs
<1> QED
  BY <1>1 DEF KSmaller

\* The three recursions over slices: what each makes of n from a function f.
RootBody(leaves, f, n) ==
  [lo \in Slices(leaves, n) |->
     CASE n = 0 -> EmptyRoot
       [] n = 1 -> leaves[lo + 1]
       [] OTHER -> LET k == LargestPowerOfTwoLessThan(n)
                   IN  HashInterior(f[k][lo], f[n - k][lo + k])]

PathBody(leaves, m, f, n) ==
  [lo \in Slices(leaves, n) |->
     LET k == LargestPowerOfTwoLessThan(n)
     IN  CASE n <= 1 -> <<>>
           [] n > 1 /\ m < lo + k -> Append(f[k][lo], SubtreeRoot(leaves)[n - k][lo + k])
           [] OTHER -> Append(f[n - k][lo + k], SubtreeRoot(leaves)[k][lo])]

ProofBody(leaves, m, f, n) ==
  [lo \in {first \in Slices(leaves, n) : m \in (first + 1)..(first + n)} |->
     LET k == LargestPowerOfTwoLessThan(n)
     IN  CASE m = lo + n -> IF lo = 0 THEN <<>> ELSE <<SubtreeRoot(leaves)[n][lo]>>
           [] m < lo + n /\ m <= lo + k -> Append(f[k][lo], SubtreeRoot(leaves)[n - k][lo + k])
           [] OTHER -> Append(f[n - k][lo + k], SubtreeRoot(leaves)[k][lo])]

\* The bodies look at smaller slices only.
Agree(f, g, n) == n > 1 => f[K(n)] = g[K(n)] /\ f[n - K(n)] = g[n - K(n)]

\* A root looks at the roots of the parts only.
LEMMA RootBodySame ==
  ASSUME NEW leaves, NEW f, NEW g, NEW n \in Nat, Agree(f, g, n)
  PROVE  RootBody(leaves, f, n) = RootBody(leaves, g, n)
<1>1. CASE n > 1
  <2>1. f[K(n)] = g[K(n)] /\ f[n - K(n)] = g[n - K(n)]
    BY <1>1 DEF Agree
  <2> QED
    BY <1>1, <2>1 DEF RootBody, K
<1>2. CASE n \in {0, 1}
  BY <1>2 DEF RootBody
<1> QED
  BY <1>1, <1>2

\* An audit path looks at the paths of the parts only.
LEMMA PathBodySame ==
  ASSUME NEW leaves, NEW m, NEW f, NEW g, NEW n \in Nat, Agree(f, g, n)
  PROVE  PathBody(leaves, m, f, n) = PathBody(leaves, m, g, n)
<1>1. CASE n > 1
  <2>1. f[K(n)] = g[K(n)] /\ f[n - K(n)] = g[n - K(n)]
    BY <1>1 DEF Agree
  <2> QED
    BY <1>1, <2>1 DEF PathBody, K
<1>2. CASE n \in {0, 1}
  BY <1>2 DEF PathBody
<1> QED
  BY <1>1, <1>2

\* A consistency proof looks at the proofs of the parts only.
LEMMA ProofBodySame ==
  ASSUME NEW leaves, Len(leaves) \in Nat, NEW m \in Nat, NEW f, NEW g, NEW n \in Nat, Agree(f, g, n)
  PROVE  ProofBody(leaves, m, f, n) = ProofBody(leaves, m, g, n)
<1>1. CASE n > 1
  <2>1. f[K(n)] = g[K(n)] /\ f[n - K(n)] = g[n - K(n)]
    BY <1>1 DEF Agree
  <2> QED
    BY <1>1, <2>1 DEF ProofBody, K
<1>2. CASE n \in {0, 1}
  <2>1. ASSUME NEW lo \in Slices(leaves, n), m \in (lo + 1)..(lo + n) PROVE m = lo + n
    BY <1>2, <2>1 DEF Slices
  <2> QED
    BY <2>1 DEF ProofBody
<1> QED
  BY <1>1, <1>2

\* A step of the construction: a function that is right up to j becomes one that
\* is right up to j + 1.
LEMMA StepAgrees ==
  ASSUME NEW j \in Nat, NEW f, NEW g, \A i \in 0..j : f[i] = g[i]
  PROVE  \A n \in 0..(j + 1) : Agree(f, g, n)
<1> SUFFICES ASSUME NEW n \in 0..(j + 1), n > 1 PROVE f[K(n)] = g[K(n)] /\ f[n - K(n)] = g[n - K(n)]
  BY DEF Agree
<1>1. K(n) \in 0..j /\ n - K(n) \in 0..j
  BY KIsSmaller DEF KSmaller
<1> QED
  BY <1>1

\* So the functions exist, by adding one size at a time.
LEMMA RootExists ==
  ASSUME NEW leaves, NEW t \in Nat
  PROVE  \E f : f = [n \in 0..t |-> RootBody(leaves, f, n)]
<1> DEFINE Right(f, j) == f = [n \in 0..j |-> RootBody(leaves, f, n)]
           S == {j \in 0..t : \E f : Right(f, j)}
<1>1. 0 \in S
  <2> DEFINE f == [n \in 0..0 |-> RootBody(leaves, <<>>, n)]
  <2>1. \A n \in 0..0 : RootBody(leaves, <<>>, n) = RootBody(leaves, f, n)
    <3> HIDE DEF f
    <3>1. \A n \in 0..0 : n \in Nat /\ Agree(<<>>, f, n)
      BY DEF Agree
    <3> QED
      BY <3>1, RootBodySame
  <2>2. Right(f, 0)
    BY <2>1
  <2> HIDE DEF Right, f
  <2> QED
    BY <2>2
<1>2. ASSUME NEW j \in 0..(t - 1), j \in S PROVE j + 1 \in S
  <2>1. PICK f : Right(f, j)
    BY <1>2
  <2> DEFINE g == [n \in 0..(j + 1) |-> RootBody(leaves, f, n)]
  <2>2. \A n \in 0..j : f[n] = RootBody(leaves, f, n) /\ n \in 0..(j + 1)
    BY <2>1
  <2>3. \A n \in 0..j : f[n] = g[n]
    BY <2>2
  <2>4. \A n \in 0..(j + 1) : RootBody(leaves, f, n) = RootBody(leaves, g, n)
    <3> HIDE DEF g
    <3>1. j \in Nat /\ \A n \in 0..(j + 1) : n \in Nat
      OBVIOUS
    <3>2. \A n \in 0..(j + 1) : Agree(f, g, n)
      BY <2>3, <3>1, StepAgrees, Zenon
    <3> QED
      BY <3>1, <3>2, RootBodySame, Zenon
  <2>5. Right(g, j + 1)
    BY <2>4
  <2> HIDE DEF Right, g
  <2> QED
    BY <2>5
<1> HIDE DEF S
<1>3. t \in S
  <2>1. \A j \in 0..(t - 1) : j \in S => j + 1 \in S
    BY <1>2
  <2>2. \A k \in 0..t : k \in S
    BY <1>1, <2>1, CountingUp, Zenon
  <2> QED
    BY <2>2
<1> QED
  BY <1>3 DEF S

\* The function of the audit paths exists.
PathsUpTo(leaves, m, t, f) == f = [n \in 0..t |-> PathBody(leaves, m, f, n)]

LEMMA PathExists ==
  ASSUME NEW leaves, NEW m, NEW t \in Nat
  PROVE  \E f : PathsUpTo(leaves, m, t, f)
<1> DEFINE Right(f, j) == f = [n \in 0..j |-> PathBody(leaves, m, f, n)]
           S == {j \in 0..t : \E f : Right(f, j)}
<1>1. 0 \in S
  <2> DEFINE f == [n \in 0..0 |-> PathBody(leaves, m, <<>>, n)]
  <2>1. \A n \in 0..0 : PathBody(leaves, m, <<>>, n) = PathBody(leaves, m, f, n)
    <3> HIDE DEF f
    <3>1. \A n \in 0..0 : n \in Nat /\ Agree(<<>>, f, n)
      BY DEF Agree
    <3> QED
      BY <3>1, PathBodySame
  <2>2. Right(f, 0)
    BY <2>1
  <2> HIDE DEF Right, f
  <2> QED
    BY <2>2
<1>2. ASSUME NEW j \in 0..(t - 1), j \in S PROVE j + 1 \in S
  <2>1. PICK f : Right(f, j)
    BY <1>2
  <2> DEFINE g == [n \in 0..(j + 1) |-> PathBody(leaves, m, f, n)]
  <2>2. \A n \in 0..j : f[n] = PathBody(leaves, m, f, n) /\ n \in 0..(j + 1)
    BY <2>1
  <2>3. \A n \in 0..j : f[n] = g[n]
    BY <2>2
  <2>4. \A n \in 0..(j + 1) : PathBody(leaves, m, f, n) = PathBody(leaves, m, g, n)
    <3> HIDE DEF g
    <3>1. j \in Nat /\ \A n \in 0..(j + 1) : n \in Nat
      OBVIOUS
    <3>2. \A n \in 0..(j + 1) : Agree(f, g, n)
      BY <2>3, <3>1, StepAgrees, Zenon
    <3> QED
      BY <3>1, <3>2, PathBodySame, Zenon
  <2>5. Right(g, j + 1)
    BY <2>4
  <2> HIDE DEF Right, g
  <2> QED
    BY <2>5
<1> HIDE DEF S
<1>3. t \in S
  <2>1. \A j \in 0..(t - 1) : j \in S => j + 1 \in S
    BY <1>2
  <2>2. \A k \in 0..t : k \in S
    BY <1>1, <2>1, CountingUp, Zenon
  <2> QED
    BY <2>2
<1> QED
  BY <1>3 DEF S, PathsUpTo

\* The function of the consistency proofs exists.
ProofsUpTo(leaves, m, t, f) == f = [n \in 0..t |-> ProofBody(leaves, m, f, n)]

LEMMA ProofExists ==
  ASSUME NEW leaves, Len(leaves) \in Nat, NEW m \in Nat, NEW t \in Nat
  PROVE  \E f : ProofsUpTo(leaves, m, t, f)
<1> DEFINE Right(f, j) == f = [n \in 0..j |-> ProofBody(leaves, m, f, n)]
           S == {j \in 0..t : \E f : Right(f, j)}
<1>1. 0 \in S
  <2> DEFINE f == [n \in 0..0 |-> ProofBody(leaves, m, <<>>, n)]
  <2>1. \A n \in 0..0 : ProofBody(leaves, m, <<>>, n) = ProofBody(leaves, m, f, n)
    <3> HIDE DEF f
    <3>1. \A n \in 0..0 : n \in Nat /\ Agree(<<>>, f, n)
      BY DEF Agree
    <3> QED
      BY <3>1, ProofBodySame
  <2>2. Right(f, 0)
    BY <2>1
  <2> HIDE DEF Right, f
  <2> QED
    BY <2>2
<1>2. ASSUME NEW j \in 0..(t - 1), j \in S PROVE j + 1 \in S
  <2>1. PICK f : Right(f, j)
    BY <1>2
  <2> DEFINE g == [n \in 0..(j + 1) |-> ProofBody(leaves, m, f, n)]
  <2>2. \A n \in 0..j : f[n] = ProofBody(leaves, m, f, n) /\ n \in 0..(j + 1)
    BY <2>1
  <2>3. \A n \in 0..j : f[n] = g[n]
    BY <2>2
  <2>4. \A n \in 0..(j + 1) : ProofBody(leaves, m, f, n) = ProofBody(leaves, m, g, n)
    <3> HIDE DEF g
    <3>1. j \in Nat /\ \A n \in 0..(j + 1) : n \in Nat
      OBVIOUS
    <3>2. \A n \in 0..(j + 1) : Agree(f, g, n)
      BY <2>3, <3>1, StepAgrees, Zenon
    <3> QED
      BY <3>1, <3>2, ProofBodySame
  <2>5. Right(g, j + 1)
    BY <2>4
  <2> HIDE DEF Right, g
  <2> QED
    BY <2>5
<1> HIDE DEF S
<1>3. t \in S
  <2>1. \A j \in 0..(t - 1) : j \in S => j + 1 \in S
    BY <1>2
  <2>2. \A k \in 0..t : k \in S
    BY <1>1, <2>1, CountingUp, Zenon
  <2> QED
    BY <2>2
<1> QED
  BY <1>3 DEF S, ProofsUpTo

\* The three cases of subtreeRoot().
LEMMA RootBodyAt ==
  ASSUME NEW leaves, NEW f, NEW n \in Nat, NEW lo \in Slices(leaves, n)
  PROVE  /\ n = 0 => RootBody(leaves, f, n)[lo] = EmptyRoot
         /\ n = 1 => RootBody(leaves, f, n)[lo] = leaves[lo + 1]
         /\ n > 1 => RootBody(leaves, f, n)[lo] = HashInterior(f[K(n)][lo], f[n - K(n)][lo + K(n)])
<1>1. CASE n = 0
  BY <1>1 DEF RootBody
<1>2. CASE n = 1
  BY <1>2 DEF RootBody
<1>3. CASE n > 1
  BY <1>3 DEF RootBody, K
<1> QED
  BY <1>1, <1>2, <1>3

\* subtreeRoot() of a slice, by the roots of its parts.
LEMMA RootIs ==
  ASSUME NEW leaves, NEW t \in Nat, Len(leaves) = t
  PROVE  /\ \A lo \in 0..t : SubtreeRoot(leaves)[0][lo] = EmptyRoot
         /\ \A lo \in 0..(t - 1) : SubtreeRoot(leaves)[1][lo] = leaves[lo + 1]
         /\ \A n \in 2..t : \A lo \in 0..(t - n) :
              SubtreeRoot(leaves)[n][lo] =
                HashInterior(SubtreeRoot(leaves)[K(n)][lo], SubtreeRoot(leaves)[n - K(n)][lo + K(n)])
<1> DEFINE root == SubtreeRoot(leaves)
<1>1. root = CHOOSE f : f = [n \in 0..t |-> RootBody(leaves, f, n)]
  <2>1. root = CHOOSE f : f = [n \in 0..Len(leaves) |-> RootBody(leaves, f, n)]
    BY Zenon DEF SubtreeRoot, RootBody
  <2> QED
    BY <2>1
<1> HIDE DEF root
<1>2. root = [n \in 0..t |-> RootBody(leaves, root, n)]
  BY <1>1, RootExists, Zenon
<1>3. \A n \in 0..t : root[n] = RootBody(leaves, root, n) /\ Slices(leaves, n) = 0..(t - n)
  BY <1>2 DEF Slices
<1>4. \A lo \in 0..t : root[0][lo] = EmptyRoot
  <2>1. 0 \in 0..t /\ 0 \in Nat /\ 0..(t - 0) = 0..t
    OBVIOUS
  <2> QED
    BY <1>3, <2>1, RootBodyAt
<1>5. \A lo \in 0..(t - 1) : root[1][lo] = leaves[lo + 1]
  <2> SUFFICES ASSUME NEW lo \in 0..(t - 1) PROVE root[1][lo] = leaves[lo + 1]
    OBVIOUS
  <2>1. 1 \in 0..t /\ 1 \in Nat
    OBVIOUS
  <2> QED
    BY <1>3, <2>1, RootBodyAt
<1>6. ASSUME NEW n \in 2..t, NEW lo \in 0..(t - n)
      PROVE  root[n][lo] = HashInterior(root[K(n)][lo], root[n - K(n)][lo + K(n)])
  <2>1. n \in 0..t /\ n \in Nat /\ n > 1
    OBVIOUS
  <2> QED
    BY <1>3, <2>1, RootBodyAt
<1> QED
  BY <1>4, <1>5, <1>6 DEF root

\* The functions of AuditPath and Subproof.
Path(leaves, m) == CHOOSE f : f = [n \in 0..Len(leaves) |-> PathBody(leaves, m, f, n)]
Proof(leaves, m) == CHOOSE f : f = [n \in 0..Len(leaves) |-> ProofBody(leaves, m, f, n)]

\* What the path of a slice is, by those of smaller slices.
PathEq(leaves, m, f, n, lo, value) ==
  /\ n <= 1 => value = <<>>
  /\ n > 1 /\ m < lo + K(n) => value = Append(f[K(n)][lo], SubtreeRoot(leaves)[n - K(n)][lo + K(n)])
  /\ n > 1 /\ m >= lo + K(n) => value = Append(f[n - K(n)][lo + K(n)], SubtreeRoot(leaves)[K(n)][lo])

\* What the consistency proof of a slice is, by those of smaller slices.
ProofEq(leaves, m, f, n, lo, value) ==
  /\ m = lo + n => value = IF lo = 0 THEN <<>> ELSE <<SubtreeRoot(leaves)[n][lo]>>
  /\ m # lo + n /\ m <= lo + K(n) => value = Append(f[K(n)][lo], SubtreeRoot(leaves)[n - K(n)][lo + K(n)])
  /\ m # lo + n /\ m > lo + K(n) => value = Append(f[n - K(n)][lo + K(n)], SubtreeRoot(leaves)[K(n)][lo])

\* It is a natural number, 0 for n <= 1.
LEMMA KIsNat == \A n \in Nat : K(n) \in Nat
<1>1. \A n \in Nat : n <= 1 => K(n) = 0
  BY DEF K, LargestPowerOfTwoLessThan
<1> QED
  BY <1>1, KIs

\* The three cases of PATH.
LEMMA PathBodyAt ==
  ASSUME NEW leaves, NEW m \in Nat, NEW f, NEW n \in Nat, NEW lo \in Slices(leaves, n), lo \in Nat
  PROVE  PathEq(leaves, m, f, n, lo, PathBody(leaves, m, f, n)[lo])
<1>0. K(n) \in Nat
  BY KIsNat
<1> DEFINE value == PathBody(leaves, m, f, n)[lo]
<1>1. CASE n <= 1
  <2>1. value = <<>>
    BY <1>1 DEF PathBody
  <2> HIDE DEF value
  <2> QED
    BY <1>1, <2>1 DEF PathEq, value
<1>2. CASE n > 1 /\ m < lo + K(n)
  <2>1. value = Append(f[K(n)][lo], SubtreeRoot(leaves)[n - K(n)][lo + K(n)])
    BY <1>2 DEF PathBody, K
  <2> HIDE DEF value
  <2> QED
    BY <1>0, <1>2, <2>1 DEF PathEq, value
<1>3. CASE n > 1 /\ ~(m < lo + K(n))
  <2>1. value = Append(f[n - K(n)][lo + K(n)], SubtreeRoot(leaves)[K(n)][lo])
    BY <1>3 DEF PathBody, K
  <2> HIDE DEF value
  <2> QED
    BY <1>0, <1>3, <2>1 DEF PathEq, value
<1> QED
  BY <1>1, <1>2, <1>3

\* The three cases of SUBPROOF.
LEMMA ProofBodyAt ==
  ASSUME NEW leaves, NEW m \in Nat, NEW f, NEW n \in Nat, NEW lo \in Slices(leaves, n), lo \in Nat,
         m \in (lo + 1)..(lo + n)
  PROVE  ProofEq(leaves, m, f, n, lo, ProofBody(leaves, m, f, n)[lo])
<1>0. K(n) \in Nat
  BY KIsNat
<1> DEFINE value == ProofBody(leaves, m, f, n)[lo]
<1>1. CASE m = lo + n
  <2>1. value = IF lo = 0 THEN <<>> ELSE <<SubtreeRoot(leaves)[n][lo]>>
    BY <1>1 DEF ProofBody
  <2> HIDE DEF value
  <2> QED
    BY <1>1, <2>1 DEF ProofEq, value
<1>2. CASE m # lo + n /\ m <= lo + K(n)
  <2>1. m < lo + n
    BY <1>2
  <2>2. value = Append(f[K(n)][lo], SubtreeRoot(leaves)[n - K(n)][lo + K(n)])
    BY <1>2, <2>1 DEF ProofBody, K
  <2> HIDE DEF value
  <2> QED
    BY <1>0, <1>2, <2>2 DEF ProofEq, value
<1>3. CASE m # lo + n /\ ~(m <= lo + K(n))
  <2>1. value = Append(f[n - K(n)][lo + K(n)], SubtreeRoot(leaves)[K(n)][lo])
    BY <1>3 DEF ProofBody, K
  <2> HIDE DEF value
  <2> QED
    BY <1>0, <1>3, <2>1 DEF ProofEq, value
<1> QED
  BY <1>1, <1>2, <1>3

\* AuditPath is the path of the whole, and each slice's is as its parts give it.
LEMMA PathIs ==
  ASSUME NEW leaves, NEW t \in Nat, Len(leaves) = t, NEW m \in Nat
  PROVE  /\ AuditPath(m, leaves) = Path(leaves, m)[t][0]
         /\ \A n \in 0..t : \A lo \in 0..(t - n) :
              PathEq(leaves, m, Path(leaves, m), n, lo, Path(leaves, m)[n][lo])
<1> DEFINE path == Path(leaves, m)
<1>1. AuditPath(m, leaves) = path[t][0]
  <2>1. AuditPath(m, leaves) = path[Len(leaves)][0]
    BY Zenon DEF AuditPath, Path, PathBody
  <2> HIDE DEF path
  <2> QED
    BY <2>1
<1>2. path = [n \in 0..t |-> PathBody(leaves, m, path, n)]
  <2>1. path = CHOOSE f : f = [n \in 0..t |-> PathBody(leaves, m, f, n)]
    BY DEF Path
  <2>2. \E f : PathsUpTo(leaves, m, t, f)
    BY PathExists
  <2> HIDE DEF path
  <2> QED
    BY <2>1, <2>2, Zenon DEF PathsUpTo
<1> HIDE DEF path
<1>3. ASSUME NEW n \in 0..t, NEW lo \in 0..(t - n) PROVE PathEq(leaves, m, path, n, lo, path[n][lo])
  <2>1. path[n] = PathBody(leaves, m, path, n)
    BY <1>2
  <2>2. lo \in Slices(leaves, n) /\ lo \in Nat /\ n \in Nat
    BY DEF Slices
  <2>3. PathEq(leaves, m, path, n, lo, PathBody(leaves, m, path, n)[lo])
    BY <2>2, PathBodyAt
  <2> QED
    BY <2>1, <2>3, Zenon
<1> QED
  BY <1>1, <1>3 DEF path

\* Subproof is the proof of the whole, and each slice's is as its parts give it.
LEMMA ProofIs ==
  ASSUME NEW leaves, NEW t \in Nat, Len(leaves) = t, NEW m \in Nat
  PROVE  /\ Subproof(m, leaves) = Proof(leaves, m)[t][0]
         /\ \A n \in 0..t : \A lo \in 0..(t - n) : m \in (lo + 1)..(lo + n) =>
              ProofEq(leaves, m, Proof(leaves, m), n, lo, Proof(leaves, m)[n][lo])
<1> DEFINE proof == Proof(leaves, m)
<1>1. Subproof(m, leaves) = proof[t][0]
  <2>1. Subproof(m, leaves) = proof[Len(leaves)][0]
    BY Zenon DEF Subproof, Proof, ProofBody
  <2> HIDE DEF proof
  <2> QED
    BY <2>1
<1>2. proof = [n \in 0..t |-> ProofBody(leaves, m, proof, n)]
  <2>1. proof = CHOOSE f : f = [n \in 0..t |-> ProofBody(leaves, m, f, n)]
    BY DEF Proof
  <2>2. \E f : ProofsUpTo(leaves, m, t, f)
    BY ProofExists
  <2> HIDE DEF proof
  <2> QED
    BY <2>1, <2>2, Zenon DEF ProofsUpTo
<1> HIDE DEF proof
<1>3. ASSUME NEW n \in 0..t, NEW lo \in 0..(t - n), m \in (lo + 1)..(lo + n)
      PROVE  ProofEq(leaves, m, proof, n, lo, proof[n][lo])
  <2>1. proof[n] = ProofBody(leaves, m, proof, n)
    BY <1>2
  <2>2. lo \in Slices(leaves, n) /\ lo \in Nat /\ n \in Nat
    BY DEF Slices
  <2>3. ProofEq(leaves, m, proof, n, lo, ProofBody(leaves, m, proof, n)[lo])
    BY <1>3, <2>2, ProofBodyAt
  <2> QED
    BY <2>1, <2>3, Zenon
<1> QED
  BY <1>1, <1>3 DEF proof

\* Hashes are equal when what was hashed is.
LEMMA HashesTell ==
  \A a, b, c, d : HashInterior(a, b) = HashInterior(c, d) <=> a = c /\ b = d
BY DEF HashInterior

\* The roots of slices that both have are equal where the leaves are.
RootsTellLeaves(a, b, s) ==
  \A n \in 0..s : \A lo \in 0..(s - n) :
    SubtreeRoot(a)[n][lo] = SubtreeRoot(b)[n][lo] <=> \A i \in (lo + 1)..(lo + n) : a[i] = b[i]

\* A root tells the leaves of its slice.
LEMMA RootsTell ==
  ASSUME NEW a, NEW t \in Nat, Len(a) = t, NEW b, NEW u \in Nat, Len(b) = u,
         NEW s \in Nat, s <= t, s <= u
  PROVE  RootsTellLeaves(a, b, s)
<1> DEFINE x == SubtreeRoot(a)
           y == SubtreeRoot(b)
           Same(n, lo) == \A i \in (lo + 1)..(lo + n) : a[i] = b[i]
           S == {n \in 0..s : \A lo \in 0..(s - n) : x[n][lo] = y[n][lo] <=> Same(n, lo)}
<1>1. /\ \A lo \in 0..t : x[0][lo] = EmptyRoot
      /\ \A lo \in 0..(t - 1) : x[1][lo] = a[lo + 1]
      /\ \A n \in 2..t : \A lo \in 0..(t - n) :
           x[n][lo] = HashInterior(x[K(n)][lo], x[n - K(n)][lo + K(n)])
  BY RootIs
<1>2. /\ \A lo \in 0..u : y[0][lo] = EmptyRoot
      /\ \A lo \in 0..(u - 1) : y[1][lo] = b[lo + 1]
      /\ \A n \in 2..u : \A lo \in 0..(u - n) :
           y[n][lo] = HashInterior(y[K(n)][lo], y[n - K(n)][lo + K(n)])
  BY RootIs
<1> HIDE DEF x, y
<1>3. ASSUME NEW n \in 0..s, \A j \in 0..(n - 1) : j \in S PROVE n \in S
  <2> SUFFICES ASSUME NEW lo \in 0..(s - n) PROVE x[n][lo] = y[n][lo] <=> Same(n, lo)
    OBVIOUS
  <2>1. CASE n = 0
    <3>1. lo \in 0..t /\ lo \in 0..u /\ \A i \in (lo + 1)..(lo + n) : FALSE
      BY <2>1
    <3>2. x[0][lo] = EmptyRoot /\ y[0][lo] = EmptyRoot
      BY <1>1, <1>2, <3>1
    <3> QED
      BY <2>1, <3>1, <3>2
  <2>2. CASE n = 1
    <3>1. lo \in 0..(t - 1) /\ lo \in 0..(u - 1) /\ (lo + 1)..(lo + n) = {lo + 1}
      BY <2>2
    <3>2. x[1][lo] = a[lo + 1] /\ y[1][lo] = b[lo + 1]
      BY <1>1, <1>2, <3>1
    <3> QED
      BY <2>2, <3>1, <3>2
  <2>3. CASE n > 1
    <3> DEFINE k == K(n)
    <3>1. k \in 1..(n - 1) /\ n - k \in 1..(n - 1)
      BY <2>3, KIsSmaller DEF KSmaller
    <3>2. n \in 2..t /\ n \in 2..u /\ lo \in 0..(t - n) /\ lo \in 0..(u - n)
      BY <2>3
    <3>3. /\ x[n][lo] = HashInterior(x[k][lo], x[n - k][lo + k])
          /\ y[n][lo] = HashInterior(y[k][lo], y[n - k][lo + k])
      BY <1>1, <1>2, <3>2
    <3> HIDE DEF k
    <3>4. lo \in 0..(s - k) /\ lo + k \in 0..(s - (n - k)) /\ k \in 0..(n - 1) /\ n - k \in 0..(n - 1)
      BY <3>1
    <3>5. x[k][lo] = y[k][lo] <=> Same(k, lo)
      <4>1. k \in S
        BY <1>3, <3>4
      <4> QED
        BY <3>4, <4>1
    <3>6. x[n - k][lo + k] = y[n - k][lo + k] <=> Same(n - k, lo + k)
      <4>1. n - k \in S
        BY <1>3, <3>4
      <4> QED
        BY <3>4, <4>1
    <3>7. Same(n, lo) <=> Same(k, lo) /\ Same(n - k, lo + k)
      <4>1. \A i \in (lo + 1)..(lo + n) : i \in (lo + 1)..(lo + k) \/ i \in (lo + k + 1)..(lo + k + (n - k))
        BY <3>1
      <4>2. \A i \in (lo + 1)..(lo + k) : i \in (lo + 1)..(lo + n)
        BY <3>1
      <4>3. \A i \in (lo + k + 1)..(lo + k + (n - k)) : i \in (lo + 1)..(lo + n)
        BY <3>1
      <4> QED
        BY <4>1, <4>2, <4>3
    <3>8. x[n][lo] = y[n][lo] <=> x[k][lo] = y[k][lo] /\ x[n - k][lo + k] = y[n - k][lo + k]
      BY <3>3, HashesTell
    <3> HIDE DEF Same
    <3> QED
      BY <3>5, <3>6, <3>7, <3>8
  <2>4. n = 0 \/ n = 1 \/ n > 1
    OBVIOUS
  <2> HIDE DEF Same
  <2> QED
    BY <2>1, <2>2, <2>3, <2>4, Zenon
<1> HIDE DEF S
<1>4. \A n \in 0..s : n \in S
  BY <1>3, FromSmaller
<1> QED
  BY <1>4 DEF S, x, y, RootsTellLeaves
-----------------------------------------------------------------------------
(* The verifier's walk *)

\* The function of Walk, turn by turn.
WalkStart(fn, sn, hash) == [fn |-> fn, sn |-> sn, first |-> hash, second |-> hash]
WalkBody(fn, sn, hash, path, f, i) == IF i = 0 THEN WalkStart(fn, sn, hash) ELSE Turn(f[i - 1], path[i])
WalkWith(fn, sn, hash, path, t, f) == f = [i \in 0..t |-> WalkBody(fn, sn, hash, path, f, i)]

\* The function of Walk exists.
LEMMA WalkExists ==
  ASSUME NEW fn, NEW sn, NEW hash, NEW path, NEW t \in Nat
  PROVE  \E f : WalkWith(fn, sn, hash, path, t, f)
<1> DEFINE Body(f, i) == WalkBody(fn, sn, hash, path, f, i)
           Right(f, j) == f = [i \in 0..j |-> Body(f, i)]
           S == {j \in 0..t : \E f : Right(f, j)}
<1>0. ASSUME NEW f, NEW g, NEW i \in Nat, i > 0 => f[i - 1] = g[i - 1] PROVE Body(f, i) = Body(g, i)
  BY <1>0 DEF WalkBody
<1> HIDE DEF Body
<1>1. 0 \in S
  <2> DEFINE f == [i \in 0..0 |-> Body(<<>>, i)]
  <2>1. \A i \in 0..0 : Body(<<>>, i) = Body(f, i)
    <3> HIDE DEF f
    <3>1. \A i \in 0..0 : i \in Nat /\ ~(i > 0)
      OBVIOUS
    <3> QED
      BY <1>0, <3>1
  <2>2. Right(f, 0)
    BY <2>1
  <2> HIDE DEF Right, f
  <2> QED
    BY <2>2
<1>2. ASSUME NEW j \in 0..(t - 1), j \in S PROVE j + 1 \in S
  <2>1. PICK f : Right(f, j)
    BY <1>2
  <2> DEFINE g == [i \in 0..(j + 1) |-> Body(f, i)]
  <2>2. \A i \in 0..j : f[i] = Body(f, i) /\ i \in 0..(j + 1)
    BY <2>1
  <2>3. \A i \in 0..j : f[i] = g[i]
    BY <2>2
  <2>4. \A i \in 0..(j + 1) : Body(f, i) = Body(g, i)
    <3> HIDE DEF g
    <3>1. \A i \in 0..(j + 1) : i \in Nat /\ (i > 0 => i - 1 \in 0..j)
      OBVIOUS
    <3>2. \A i \in 0..(j + 1) : i \in Nat /\ (i > 0 => f[i - 1] = g[i - 1])
      BY <2>3, <3>1
    <3> QED
      BY <1>0, <3>2
  <2>5. Right(g, j + 1)
    BY <2>4
  <2> HIDE DEF Right, g
  <2> QED
    BY <2>5
<1> HIDE DEF S
<1>3. t \in S
  <2>1. \A j \in 0..(t - 1) : j \in S => j + 1 \in S
    BY <1>2
  <2>2. \A k \in 0..t : k \in S
    BY <1>1, <2>1, CountingUp, Zenon
  <2> QED
    BY <2>2
<1> QED
  BY <1>3 DEF S, Body, WalkWith

\* The walk along a path of t siblings, turn by turn.
Walks(fn, sn, hash, path, t, walk) ==
  /\ Walk(fn, sn, hash, path) = IF walk[t].sn = 0 THEN walk[t] ELSE Thrown
  /\ walk[0] = WalkStart(fn, sn, hash)
  /\ \A i \in 1..t : walk[i] = Turn(walk[i - 1], path[i])

\* A walk is its start and a turn for each sibling.
LEMMA WalkIs ==
  ASSUME NEW fn, NEW sn, NEW hash, NEW path, NEW t \in Nat, Len(path) = t
  PROVE  \E walk : Walks(fn, sn, hash, path, t, walk)
<1> DEFINE walk == CHOOSE f : f = [i \in 0..Len(path) |-> WalkBody(fn, sn, hash, path, f, i)]
<1>1. Walk(fn, sn, hash, path) = IF walk[Len(path)].sn = 0 THEN walk[Len(path)] ELSE Thrown
  BY Zenon DEF Walk, WalkBody, WalkStart
<1>2. walk = [i \in 0..t |-> WalkBody(fn, sn, hash, path, walk, i)]
  <2>1. walk = CHOOSE f : f = [i \in 0..t |-> WalkBody(fn, sn, hash, path, f, i)]
    OBVIOUS
  <2>2. \E f : WalkWith(fn, sn, hash, path, t, f)
    BY WalkExists
  <2> HIDE DEF walk
  <2> QED
    BY <2>1, <2>2, Zenon DEF WalkWith
<1> HIDE DEF walk
<1>3. \A i \in 0..t : walk[i] = WalkBody(fn, sn, hash, path, walk, i)
  BY <1>2
<1>4. walk[0] = WalkStart(fn, sn, hash)
  BY <1>3 DEF WalkBody
<1>5. \A i \in 1..t : walk[i] = Turn(walk[i - 1], path[i])
  BY <1>3 DEF WalkBody
<1> QED
  BY <1>1, <1>4, <1>5 DEF Walks
-----------------------------------------------------------------------------
(* Where the slices of the recursion lie, and the positions that stand for them *)

\* A power of two divides those above it.
LEMMA PowerDivides ==
  \A q \in Powers : \A p \in Powers : p <= q => \E r \in Powers : q = r * p
<1> DEFINE Divides(p, q) == \E r \in Powers : q = r * p
           S == {q \in Powers : \A p \in Powers : p <= q => Divides(p, q)}
<1>1. 1 \in S
  <2>1. ASSUME NEW p \in Powers, p <= 1 PROVE Divides(p, 1)
    <3>1. p \in Nat /\ p >= 1 /\ 1 \in Powers
      BY PowersClosed
    <3>2. p = 1 /\ 1 = 1 * p
      BY <2>1, <3>1
    <3> QED
      BY <3>1, <3>2
  <2> QED
    BY <2>1, PowersClosed
<1>2. ASSUME NEW q \in S PROVE 2 * q \in S
  <2>1. q \in Powers /\ q \in Nat /\ 2 * q \in Powers /\ q >= 1
    BY PowersClosed
  <2>2. ASSUME NEW p \in Powers, p <= 2 * q PROVE Divides(p, 2 * q)
    <3>1. p \in Nat /\ p >= 1 /\ 1 \in Powers
      BY PowersClosed
    <3>2. CASE p <= q
      <4>1. Divides(p, q)
        BY <3>2
      <4>2. PICK r \in Powers : q = r * p
        BY <4>1
      <4>3. 2 * r \in Powers /\ r \in Nat
        BY PowersClosed
      <4>4. 2 * q = (2 * r) * p
        BY <3>1, <4>2, <4>3
      <4> QED
        BY <4>3, <4>4
    <3>3. CASE q < p
      <4>1. PICK c \in Nat : c >= 1 /\ p = c * (2 * q)
        BY <2>1, <3>3, PowerMultiple
      <4>2. c * (2 * q) >= 2 * q
        BY <2>1, <4>1
      <4>3. p = 2 * q /\ 2 * q = 1 * p
        BY <2>1, <2>2, <3>1, <4>1, <4>2
      <4> QED
        BY <3>1, <4>3
    <3> QED
      BY <2>1, <3>1, <3>2, <3>3
  <2> HIDE DEF Divides
  <2> QED
    BY <2>1, <2>2
<1>3. S \in SUBSET Nat
  BY PowersClosed
<1> HIDE DEF S
<1>4. \A q \in Powers : q \in S
  BY <1>1, <1>2, <1>3, PowersInduct
<1> QED
  BY <1>4 DEF S

\* A slice of the recursion begins at a multiple of a power of two, and is that
\* long or ends with the leaves.
Placed(N, lo, n) ==
  /\ n >= 1 /\ lo + n <= N
  /\ \E j \in Powers : \E c \in Nat : lo = c * j /\ n <= j /\ (n = j \/ lo + n = N)

\* The parts of a slice of the recursion are such slices, and a slice that does
\* not end with the leaves divides in two equal halves.
LEMMA PlacedHalves ==
  ASSUME NEW N \in Nat, NEW lo \in Nat, NEW n \in Nat, n > 1, Placed(N, lo, n)
  PROVE  /\ Placed(N, lo, K(n)) /\ Placed(N, lo + K(n), n - K(n))
         /\ \E d \in Nat : lo = d * (2 * K(n))
         /\ n = 2 * K(n) \/ lo + n = N
<1> DEFINE k == K(n)
<1>1. k \in Powers /\ k \in Nat /\ k >= 1 /\ k < n /\ n <= 2 * k
  BY KIs
<1> HIDE DEF k
<1>2. PICK j \in Powers : \E c \in Nat : lo = c * j /\ n <= j /\ (n = j \/ lo + n = N)
  BY DEF Placed
<1>3. PICK c \in Nat : lo = c * j /\ n <= j /\ (n = j \/ lo + n = N)
  BY <1>2
<1>4. j \in Nat /\ lo + n <= N
  BY PowersClosed DEF Placed
<1>5. PICK e \in Nat : e >= 1 /\ j = e * (2 * k)
  <2>1. k < j
    BY <1>1, <1>3, <1>4
  <2> QED
    BY <1>1, <2>1, PowerMultiple, Zenon
<1> DEFINE d == c * e
<1>6. d \in Nat /\ lo = d * (2 * k)
  BY <1>1, <1>3, <1>5
<1> HIDE DEF d
<1>7. n = 2 * k \/ lo + n = N
  <2>1. e * (2 * k) >= 2 * k
    BY <1>1, <1>5
  <2> QED
    BY <1>1, <1>3, <1>5, <2>1
<1>8. Placed(N, lo, k)
  <2>1. lo = (2 * d) * k /\ 2 * d \in Nat /\ lo + k <= N
    BY <1>1, <1>4, <1>6
  <2> QED
    BY <1>1, <2>1 DEF Placed
<1>9. Placed(N, lo + k, n - k)
  <2>1. lo + k = (2 * d + 1) * k /\ 2 * d + 1 \in Nat
    BY <1>1, <1>6
  <2>2. n - k >= 1 /\ lo + k + (n - k) <= N /\ n - k <= k /\ (n - k = k \/ lo + k + (n - k) = N)
    BY <1>1, <1>4, <1>7
  <2> QED
    BY <1>1, <2>1, <2>2 DEF Placed
<1> QED
  BY <1>6, <1>7, <1>8, <1>9 DEF k

\* The two positions of the verifier, when it holds the root of a slice.
At(N, lo, n, fn, sn) ==
  /\ fn \in Nat /\ sn \in Nat
  /\ lo + n < N => fn * n = lo /\ sn * n < N /\ N <= sn * n + n
  /\ lo + n = N => fn = sn /\ \E p \in Powers : p < 2 * n /\ fn * p = lo

\* Halving the positions of a left half, and of a right half inside the tree.
LEMMA HalfOfLast ==
  ASSUME NEW N \in Nat, NEW k \in Nat, k >= 1, NEW sn \in Nat, sn * k < N, N <= sn * k + k
  PROVE  sn \div 2 \in Nat /\ (sn \div 2) * (2 * k) < N /\ N <= (sn \div 2) * (2 * k) + 2 * k
<1> DEFINE h == sn \div 2
           z == h * k
<1>1. h \in Nat /\ (sn = 2 * h \/ sn = 2 * h + 1)
  OBVIOUS
<1>2. z \in Nat /\ h * (2 * k) = 2 * z
  BY <1>1
<1>3. sn * k = 2 * z \/ sn * k = 2 * z + k
  BY <1>1
<1> HIDE DEF z, h
<1>4. 2 * z < N /\ N <= 2 * z + 2 * k
  BY <1>2, <1>3
<1> QED
  BY <1>1, <1>2, <1>4 DEF h

\* A multiple of a length and the last leaf are in the same stretch of it.
LEMMA SameStretch ==
  ASSUME NEW N \in Nat, NEW k \in Nat, k >= 1, NEW d \in Nat, NEW s \in Nat,
         s * k < N, N <= s * k + k, d * k < N, N <= d * k + k
  PROVE  s = d
<1>1. ASSUME NEW x \in Nat, NEW y \in Nat, x < y, y * k < N, N <= x * k + k PROVE FALSE
  <2>1. (x + 1) * k <= y * k
    BY <1>1
  <2>2. (x + 1) * k = x * k + k /\ x * k \in Nat /\ y * k \in Nat
    OBVIOUS
  <2> QED
    BY <1>1, <2>1, <2>2
<1>2. ~(s < d) /\ ~(d < s)
  BY <1>1
<1> QED
  BY <1>2

\* The turn that goes from a left half to the whole, and what it hashes.
LEMMA LeftTurn ==
  ASSUME NEW N \in Nat, NEW lo \in Nat, NEW n \in Nat, n > 1, Placed(N, lo, n),
         NEW w, At(N, lo, K(n), w.fn, w.sn), NEW sibling
  PROVE  /\ At(N, lo, n, Turn(w, sibling).fn, Turn(w, sibling).sn)
         /\ Turn(w, sibling).first = w.first
         /\ Turn(w, sibling).second = HashInterior(w.second, sibling)
<1> DEFINE k == K(n)
           fn == w.fn
           sn == w.sn
           up == Turn(w, sibling)
<1>1. k \in Powers /\ k \in Nat /\ k >= 1 /\ k < n /\ n <= 2 * k /\ 2 * k \in Powers
  BY KIs, PowersClosed
<1>2. /\ \E d \in Nat : lo = d * (2 * k)
      /\ n = 2 * k \/ lo + n = N
      /\ lo + n <= N
  <2>1. lo + n <= N
    BY DEF Placed
  <2> QED
    BY <2>1, PlacedHalves
<1>3. fn \in Nat /\ sn \in Nat /\ (lo + k < N => fn * k = lo /\ sn * k < N /\ N <= sn * k + k)
  BY DEF At
<1> HIDE DEF k, fn, sn
<1>4. lo + k < N
  BY <1>1, <1>2
<1>5. PICK d \in Nat : lo = d * (2 * k)
  BY <1>2
<1> DEFINE z == d * k
<1>6. z \in Nat /\ lo = 2 * z /\ (2 * d) * k = 2 * z /\ d * (2 * k) = 2 * z
  BY <1>1, <1>5
<1> HIDE DEF z
<1>7. fn = 2 * d
  <2>1. fn * k = 2 * z /\ (2 * d) * k = 2 * z
    BY <1>3, <1>4, <1>6
  <2> QED
    BY <1>1, <1>3, <2>1
<1>8. ~Odd(fn) /\ fn \div 2 = d
  BY <1>7 DEF Odd
<1>9. fn < sn
  <2>1. ASSUME sn <= fn PROVE FALSE
    <3>1. sn * k <= fn * k
      BY <1>1, <1>3, <2>1
    <3>2. sn * k \in Nat
      BY <1>1, <1>3
    <3> QED
      BY <1>1, <1>3, <1>4, <3>1, <3>2
  <2> QED
    BY <1>3, <2>1
<1>10. up = [fn |-> d, sn |-> sn \div 2, first |-> w.first, second |-> HashInterior(w.second, sibling)]
  <2>1. ~(w.sn <= 0) /\ ~(w.sn > 0 /\ (Odd(w.fn) \/ w.fn = w.sn))
    BY <1>3, <1>8, <1>9 DEF fn, sn
  <2>2. w.fn \div 2 = d
    BY <1>8 DEF fn
  <2> QED
    BY <2>1, <2>2 DEF Turn, sn
<1>11. up.fn = d /\ up.sn = sn \div 2 /\ up.first = w.first /\ up.second = HashInterior(w.second, sibling)
  BY <1>10
<1> HIDE DEF up
<1> DEFINE h == sn \div 2
<1>12. h \in Nat /\ h * (2 * k) < N /\ N <= h * (2 * k) + 2 * k
  BY <1>1, <1>3, <1>4, HalfOfLast
<1> HIDE DEF h
<1>13. At(N, lo, n, d, h)
  <2>1. ASSUME lo + n < N PROVE d * n = lo /\ h * n < N /\ N <= h * n + n
    <3>1. n = 2 * k
      BY <1>1, <1>2, <2>1
    <3> QED
      BY <1>5, <1>12, <3>1
  <2>2. ASSUME lo + n = N PROVE d = h /\ \E p \in Powers : p < 2 * n /\ d * p = lo
    <3>1. d * (2 * k) < N /\ N <= d * (2 * k) + 2 * k
      BY <1>1, <1>6, <2>2
    <3>2. 2 * k \in Nat /\ 2 * k >= 1
      BY <1>1
    <3>3. h = d
      <4> DEFINE kk == 2 * k
      <4> HIDE DEF kk
      <4>1. kk \in Nat /\ kk >= 1 /\ d * kk < N /\ N <= d * kk + kk /\ h * kk < N /\ N <= h * kk + kk
        BY <1>12, <3>1, <3>2 DEF kk
      <4> QED
        BY <1>12, <4>1, SameStretch
    <3> QED
      BY <1>1, <1>5, <3>3
  <2> QED
    BY <1>12, <2>1, <2>2 DEF At
<1> QED
  BY <1>11, <1>13 DEF h, up

\* The turn that goes from a right half to the whole.
LEMMA RightTurn ==
  ASSUME NEW N \in Nat, NEW lo \in Nat, NEW n \in Nat, n > 1, Placed(N, lo, n),
         NEW w, At(N, lo + K(n), n - K(n), w.fn, w.sn), NEW sibling
  PROVE  /\ At(N, lo, n, Turn(w, sibling).fn, Turn(w, sibling).sn)
         /\ Turn(w, sibling).first = HashInterior(sibling, w.first)
         /\ Turn(w, sibling).second = HashInterior(sibling, w.second)
<1> DEFINE k == K(n)
           fn == w.fn
           sn == w.sn
           up == Turn(w, sibling)
<1>1. k \in Powers /\ k \in Nat /\ k >= 1 /\ k < n /\ n <= 2 * k /\ 2 * k \in Powers
  BY KIs, PowersClosed
<1>2. /\ \E d \in Nat : lo = d * (2 * k)
      /\ n = 2 * k \/ lo + n = N
      /\ lo + n <= N
  <2>1. lo + n <= N
    BY DEF Placed
  <2> QED
    BY <2>1, PlacedHalves
<1>3. /\ fn \in Nat /\ sn \in Nat
      /\ lo + k + (n - k) < N => fn * (n - k) = lo + k /\ sn * (n - k) < N /\ N <= sn * (n - k) + (n - k)
      /\ lo + k + (n - k) = N => fn = sn /\ \E p \in Powers : p < 2 * (n - k) /\ fn * p = lo + k
  BY DEF At
<1> HIDE DEF k, fn, sn
<1>4. PICK d \in Nat : lo = d * (2 * k)
  BY <1>2
<1> DEFINE z == d * k
           x == 2 * d + 1
<1>5. z \in Nat /\ lo = 2 * z /\ x * k = 2 * z + k /\ x \in Nat /\ x \div 2 = d /\ Odd(x)
  <2>1. z \in Nat /\ lo = 2 * z /\ x * k = 2 * z + k
    BY <1>1, <1>4
  <2>2. x \in Nat /\ x \div 2 = d /\ Odd(x)
    BY DEF Odd
  <2> QED
    BY <2>1, <2>2
<1>6. ASSUME NEW f, NEW s, fn > 0, sn > 0, Odd(fn) \/ fn = sn,
             SkipZeros(fn, sn) = [fn |-> f, sn |-> s]
      PROVE  up = [fn |-> f, sn |-> s, first |-> HashInterior(sibling, w.first),
                   second |-> HashInterior(sibling, w.second)]
  <2>1. ~(w.sn <= 0) /\ (w.sn > 0 /\ (Odd(w.fn) \/ w.fn = w.sn))
    BY <1>3, <1>6 DEF fn, sn
  <2>2. SkipZeros(w.fn, w.sn).fn = f /\ SkipZeros(w.fn, w.sn).sn = s
    BY <1>6 DEF fn, sn
  <2> QED
    BY <2>1, <2>2 DEF Turn
<1> DEFINE Done(f, s) == /\ up = [fn |-> f, sn |-> s, first |-> HashInterior(sibling, w.first),
                                  second |-> HashInterior(sibling, w.second)]
                         /\ At(N, lo, n, f, s)
<1>7. ASSUME lo + n < N PROVE \E f, s : Done(f, s)
  <2>1. n - k = k /\ n = 2 * k /\ lo + k + (n - k) < N
    BY <1>1, <1>2, <1>7
  <2>2. fn * k = lo + k /\ sn * k < N /\ N <= sn * k + k
    BY <1>3, <2>1
  <2>3. fn = x
    <3>1. fn * k = x * k
      BY <1>5, <2>2
    <3> HIDE DEF x
    <3> QED
      BY <1>1, <1>3, <1>5, <3>1
  <2>4. sn > 0
    BY <1>1, <1>3, <1>7, <2>1, <2>2
  <2> DEFINE h == sn \div 2
  <2>5. SkipZeros(fn, sn) = [fn |-> d, sn |-> h]
    BY <1>3, <1>5, <2>3, SkipOdd
  <2>6. h \in Nat /\ h * (2 * k) < N /\ N <= h * (2 * k) + 2 * k
    BY <1>1, <1>3, <2>2, HalfOfLast
  <2> HIDE DEF h
  <2>7. At(N, lo, n, d, h)
    BY <1>4, <1>7, <2>1, <2>6 DEF At
  <2>8. Done(d, h)
    <3>1. fn > 0 /\ Odd(fn)
      BY <1>5, <2>3
    <3> QED
      BY <1>6, <2>4, <2>5, <2>7, <3>1
  <2> HIDE DEF Done
  <2> QED
    BY <2>8
<1>8. ASSUME lo + n = N PROVE \E f, s : Done(f, s)
  <2>1. fn = sn /\ \E p \in Powers : p < 2 * (n - k) /\ fn * p = lo + k
    BY <1>1, <1>3, <1>8
  <2>2. PICK p \in Powers : p < 2 * (n - k) /\ fn * p = lo + k
    BY <2>1
  <2>3. p \in Nat /\ p >= 1
    BY PowersClosed
  <2>4. p <= k
    <3>1. ASSUME k < p PROVE FALSE
      <4>1. PICK c \in Nat : c >= 1 /\ p = c * (2 * k)
        BY <1>1, <3>1, PowerMultiple
      <4>2. c * (2 * k) >= 2 * k
        BY <1>1, <4>1
      <4> QED
        BY <1>1, <2>2, <4>1, <4>2
    <3> QED
      BY <1>1, <2>3, <3>1
  <2>5. PICK q \in Powers : k = q * p
    BY <1>1, <2>4, PowerDivides
  <2>6. q \in Nat /\ q >= 1
    BY PowersClosed
  <2>7. fn = q * x
    <3>1. fn * p = x * k
      BY <1>5, <2>2
    <3> DEFINE y == q * x
    <3>2. y \in Nat /\ x * k = y * p
      <4> HIDE DEF x
      <4> QED
        BY <1>5, <2>3, <2>5, <2>6
    <3> HIDE DEF y, x
    <3>3. fn = y
      BY <1>3, <2>3, <3>1, <3>2
    <3> QED
      BY <3>3 DEF y
  <2>8. fn > 0
    BY <1>1, <1>3, <1>5, <2>2, <2>3
  <2>9. SkipZeros(fn, sn) = [fn |-> d, sn |-> d]
    <3> HIDE DEF x
    <3>1. SkipZeros(q * x, q * x) = [fn |-> x \div 2, sn |-> x \div 2]
      BY <1>5, SkipEven
    <3> QED
      BY <1>5, <2>1, <2>7, <3>1
  <2>10. At(N, lo, n, d, d)
    BY <1>1, <1>4, <1>8 DEF At
  <2>11. Done(d, d)
    BY <1>6, <2>1, <2>8, <2>9, <2>10
  <2> HIDE DEF Done
  <2> QED
    BY <2>11
<1>9. \E f, s : Done(f, s)
  BY <1>1, <1>2, <1>7, <1>8
<1>10. PICK f, s : Done(f, s)
  BY <1>9
<1>11. up.fn = f /\ up.sn = s /\ up.first = HashInterior(sibling, w.first)
       /\ up.second = HashInterior(sibling, w.second) /\ At(N, lo, n, f, s)
  BY <1>10
<1> QED
  BY <1>11

\* Every size is an odd multiple of a power of two.
LEMMA OddPart ==
  ASSUME NEW m \in Nat, m >= 1
  PROVE  \E s \in Powers : \E c \in Nat : ~Odd(c) /\ m = c * s + s
<1> DEFINE Parts(x) == \E s \in Powers : \E c \in Nat : ~Odd(c) /\ x = c * s + s
           S == {x \in 0..m : x = 0 \/ Parts(x)}
<1>1. ASSUME NEW x \in 0..m, \A y \in 0..(x - 1) : y \in S PROVE x \in S
  <2>1. CASE x = 0
    BY <2>1
  <2>2. CASE Odd(x)
    <3>1. x - 1 \in Nat /\ ~Odd(x - 1) /\ x = (x - 1) * 1 + 1 /\ 1 \in Powers
      BY <2>2, PowersClosed DEF Odd
    <3>2. Parts(x)
      BY <3>1
    <3> QED
      BY <3>2
  <2>3. CASE x # 0 /\ ~Odd(x)
    <3> DEFINE y == x \div 2
    <3>1. y \in 0..(x - 1) /\ y # 0 /\ x = 2 * y
      BY <2>3 DEF Odd
    <3> HIDE DEF y
    <3>2. Parts(y)
      BY <1>1, <3>1
    <3>3. PICK s \in Powers : \E c \in Nat : ~Odd(c) /\ y = c * s + s
      BY <3>2
    <3>4. PICK c \in Nat : ~Odd(c) /\ y = c * s + s
      BY <3>3
    <3>5. s \in Nat /\ 2 * s \in Powers
      BY PowersClosed
    <3>6. x = c * (2 * s) + 2 * s
      BY <3>1, <3>4, <3>5
    <3>7. Parts(x)
      BY <3>4, <3>5, <3>6
    <3> QED
      BY <3>7
  <2> QED
    BY <2>1, <2>2, <2>3
<1> HIDE DEF S
<1>2. \A x \in 0..m : x \in S
  BY <1>1, FromSmaller
<1>3. m \in S
  BY <1>2
<1> QED
  BY <1>3 DEF S

\* The slice that the recursion of SUBPROOF ends in: the m first leaves end with
\* it, it is as long as the power of two in m, and it is a left half.
LEMMA LastSlice ==
  ASSUME NEW N \in Nat, NEW lo \in Nat, NEW n \in Nat, Placed(N, lo, n), lo + n < N,
         NEW s \in Powers, NEW c \in Nat, ~Odd(c), lo + n = c * s + s, lo <= c * s
  PROVE  n = s /\ lo = c * s
<1>1. s \in Nat /\ s >= 1
  BY PowersClosed
<1>2. PICK j \in Powers : \E d \in Nat : lo = d * j /\ n <= j /\ (n = j \/ lo + n = N)
  BY DEF Placed
<1>3. PICK d \in Nat : lo = d * j /\ n <= j /\ (n = j \/ lo + n = N)
  BY <1>2
<1> DEFINE z == c * s
<1>4. z \in Nat /\ lo + n = z + s /\ lo <= z
  BY <1>1
<1> HIDE DEF z
<1>5. n = j /\ n \in Powers /\ s <= n
  BY <1>1, <1>3, <1>4
<1>6. ASSUME s < n PROVE FALSE
  <2>1. PICK r \in Nat : r >= 1 /\ n = r * (2 * s)
    BY <1>1, <1>5, <1>6, PowerMultiple
  <2> DEFINE u == d * r + r
  <2>2. u \in Nat
    OBVIOUS
  <2>3. lo + n = u * (2 * s)
    BY <1>1, <1>3, <1>5, <2>1
  <2>4. (2 * u) * s = (c + 1) * s
    <3>1. u * (2 * s) = (2 * u) * s
      BY <1>1, <2>2
    <3>2. (c + 1) * s = z + s
      BY <1>1 DEF z
    <3> QED
      BY <1>4, <2>3, <3>1, <3>2
  <2> HIDE DEF u
  <2>5. 2 * u = c + 1
    BY <1>1, <2>2, <2>4
  <2> QED
    BY <2>2, <2>5 DEF Odd
<1>7. n = s
  BY <1>1, <1>5, <1>6
<1> QED
  BY <1>4, <1>7 DEF z

\* When the m first leaves end inside the right half, that slice is inside it.
LEMMA LastSliceRight ==
  ASSUME NEW lo \in Nat, NEW k \in Powers, NEW d \in Nat, lo = d * (2 * k),
         NEW s \in Powers, NEW c \in Nat, NEW m \in Nat, m = c * s + s, lo + k < m, m < lo + 2 * k
  PROVE  lo + k <= c * s
<1>1. s \in Nat /\ s >= 1 /\ k \in Nat /\ k >= 1
  BY PowersClosed
<1> DEFINE z == d * k
           x == 2 * d + 1
<1>2. z \in Nat /\ lo = 2 * z /\ x \in Nat /\ x * k = 2 * z + k /\ x * k = lo + k
  BY <1>1
<1>3. (c + 1) * s = m
  BY <1>1
<1>4. s < k
  <2>1. ASSUME k <= s PROVE FALSE
    <3>1. PICK r \in Powers : s = r * k
      BY <2>1, PowerDivides
    <3>2. r \in Nat
      BY PowersClosed
    <3> DEFINE u == (c + 1) * r
    <3>3. u \in Nat /\ u * k = m
      BY <1>1, <1>3, <3>1, <3>2
    <3> HIDE DEF u, x
    <3>4. x * k < u * k /\ u * k < x * k + k
      BY <1>1, <1>2, <3>3
    <3>5. x < u
      <4>1. ASSUME u <= x PROVE FALSE
        <5>1. u * k <= x * k
          BY <1>1, <1>2, <3>3, <4>1
        <5> QED
          BY <1>1, <1>2, <3>3, <3>4, <5>1
      <4> QED
        BY <1>2, <3>3, <4>1
    <3>6. (x + 1) * k <= u * k /\ (x + 1) * k = x * k + k
      BY <1>1, <1>2, <3>3, <3>5
    <3> QED
      BY <1>1, <1>2, <3>3, <3>4, <3>6
  <2> QED
    BY <1>1, <2>1
<1>5. PICK r \in Powers : k = r * s
  BY <1>1, <1>4, PowerDivides
<1>6. r \in Nat
  BY PowersClosed
<1> DEFINE u == x * r
<1>7. u \in Nat /\ u * s = lo + k
  <2> HIDE DEF x
  <2> QED
    BY <1>1, <1>2, <1>5, <1>6
<1> HIDE DEF u
<1>8. u < c + 1
  <2>1. ASSUME c + 1 <= u PROVE FALSE
    <3>1. (c + 1) * s <= u * s
      BY <1>1, <1>7, <2>1
    <3> QED
      BY <1>1, <1>2, <1>3, <1>7, <3>1
  <2> QED
    BY <1>7, <2>1
<1>9. u * s <= c * s
  BY <1>1, <1>7, <1>8
<1> QED
  BY <1>7, <1>9
-----------------------------------------------------------------------------
(* The walk undoes the recursion *)

\* The hashes of a tree: the elements of its proofs.
Hashes(leaves) == UNION {{SubtreeRoot(leaves)[n][lo] : lo \in 0..Len(leaves)} : n \in 0..Len(leaves)}

\* A path with one more hash.
LEMMA AppendIs ==
  ASSUME NEW S, NEW q \in Seq(S), NEW e \in S
  PROVE  /\ Append(q, e) \in Seq(S) /\ Len(q) \in Nat /\ Len(Append(q, e)) = Len(q) + 1
         /\ Append(q, e)[Len(q) + 1] = e
         /\ \A i \in 1..Len(q) : Append(q, e)[i] = q[i]
OBVIOUS

\* v goes along the path, from its place b.
Follows(v, path, b) == \A i \in (b + 1)..Len(path) : v[i] = Turn(v[i - 1], path[i])

\* A walk along a longer path goes along the shorter one, and turns once more.
LEMMA FollowsOn ==
  ASSUME NEW S, NEW q \in Seq(S), NEW e \in S, NEW v, NEW b \in Nat, b <= Len(q), Follows(v, Append(q, e), b)
  PROVE  /\ Follows(v, q, b)
         /\ v[Len(Append(q, e))] = Turn(v[Len(q)], e)
<1> DEFINE a == Append(q, e)
           l == Len(q)
<1>1. l \in Nat /\ Len(a) = l + 1 /\ a[l + 1] = e /\ \A i \in 1..l : a[i] = q[i]
  BY AppendIs
<1>2. \A i \in (b + 1)..Len(a) : v[i] = Turn(v[i - 1], a[i])
  BY DEF Follows
<1> HIDE DEF a
<1>3. Follows(v, q, b)
  <2>1. ASSUME NEW i \in (b + 1)..l PROVE v[i] = Turn(v[i - 1], q[i])
    <3>1. i \in (b + 1)..Len(a) /\ i \in 1..l
      BY <1>1
    <3>2. v[i] = Turn(v[i - 1], a[i]) /\ a[i] = q[i]
      BY <1>1, <1>2, <3>1
    <3> QED
      BY <3>2
  <2> QED
    BY <2>1 DEF Follows
<1>4. v[l + 1] = Turn(v[l], e)
  <2>1. l + 1 \in (b + 1)..Len(a) /\ (l + 1) - 1 = l
    BY <1>1
  <2>2. v[l + 1] = Turn(v[(l + 1) - 1], a[l + 1])
    BY <1>2, <2>1
  <2> QED
    BY <1>1, <2>1, <2>2
<1> QED
  BY <1>1, <1>3, <1>4 DEF a

\* Where the walk is, and the second root it has, after the path of a slice.
Climbed(leaves, m, v, n, lo, path) ==
  /\ path \in Seq(Hashes(leaves))
  /\ Follows(v, path, 0) =>
       /\ At(Len(leaves), lo, n, v[Len(path)].fn, v[Len(path)].sn)
       /\ v[Len(path)].second = SubtreeRoot(leaves)[n][lo]

\* The places and the sizes of the two parts.
LEMMA WithinHalves ==
  ASSUME NEW t \in Nat, NEW n \in 0..t, NEW lo \in 0..(t - n), NEW k \in 1..(n - 1)
  PROVE  /\ k \in 0..(n - 1) /\ lo \in 0..(t - k) /\ n - k \in 0..(n - 1) /\ lo + k \in 0..(t - (n - k))
         /\ n - k \in 0..t /\ k \in 0..t /\ lo + k + (n - k) = lo + n
OBVIOUS

\* From the leaf m, along the path of a slice that has it, to the slice's root.

LEMMA InclusionClimbs ==
  ASSUME NEW leaves, NEW t \in Nat, Len(leaves) = t, NEW m \in Nat, m < t,
         NEW v, At(t, m, 1, v[0].fn, v[0].sn), v[0].second = leaves[m + 1]
  PROVE  \A n \in 0..t : \A lo \in 0..(t - n) :
           Placed(t, lo, n) /\ lo <= m /\ m < lo + n => Climbed(leaves, m, v, n, lo, Path(leaves, m)[n][lo])
<1> DEFINE path == Path(leaves, m)
           root == SubtreeRoot(leaves)
           H == Hashes(leaves)
           Good(n, lo) == Placed(t, lo, n) /\ lo <= m /\ m < lo + n => Climbed(leaves, m, v, n, lo, path[n][lo])
           S == {n \in 0..t : \A lo \in 0..(t - n) : Good(n, lo)}
<1>1. \A n \in 0..t : \A lo \in 0..(t - n) : PathEq(leaves, m, path, n, lo, path[n][lo])
  BY PathIs
<1>2. /\ \A lo \in 0..(t - 1) : root[1][lo] = leaves[lo + 1]
      /\ \A n \in 2..t : \A lo \in 0..(t - n) :
           root[n][lo] = HashInterior(root[K(n)][lo], root[n - K(n)][lo + K(n)])
  BY RootIs
<1>3. \A n \in 0..t : \A lo \in 0..(t - n) : root[n][lo] \in H
  <2>1. \A n \in 0..t : \A lo \in 0..(t - n) : lo \in 0..t
    OBVIOUS
  <2> QED
    BY <2>1 DEF Hashes
<1> HIDE DEF path, root, H
<1>4. ASSUME NEW n \in 0..t, \A j \in 0..(n - 1) : j \in S PROVE n \in S
  <2> SUFFICES ASSUME NEW lo \in 0..(t - n), Placed(t, lo, n), lo <= m, m < lo + n
               PROVE  Climbed(leaves, m, v, n, lo, path[n][lo])
    OBVIOUS
  <2>0. PathEq(leaves, m, path, n, lo, path[n][lo])
    BY <1>1
  <2>1. CASE n <= 1
    <3>1. n = 1 /\ lo = m /\ m \in 0..(t - 1)
      BY <2>1 DEF Placed
    <3>2. path[n][lo] = <<>>
      BY <2>0, <2>1 DEF PathEq
    <3>3. <<>> \in Seq(Hashes(leaves)) /\ Len(<<>>) = 0
      OBVIOUS
    <3>4. root[1][m] = leaves[m + 1]
      BY <1>2, <3>1
    <3> QED
      BY <3>1, <3>2, <3>3, <3>4 DEF Climbed, root
  <2>2. CASE n > 1
    <3> DEFINE k == K(n)
    <3>1. k \in 1..(n - 1) /\ n - k \in 1..(n - 1)
      BY <2>2, KIsSmaller DEF KSmaller
    <3>2. Placed(t, lo, k) /\ Placed(t, lo + k, n - k)
      BY <2>2, PlacedHalves
    <3>3. root[n][lo] = HashInterior(root[k][lo], root[n - k][lo + k])
      BY <1>2, <2>2
    <3>4. /\ m < lo + k => path[n][lo] = Append(path[k][lo], root[n - k][lo + k])
          /\ m >= lo + k => path[n][lo] = Append(path[n - k][lo + k], root[k][lo])
      BY <2>0, <2>2 DEF PathEq, root
    <3>5. lo \in Nat /\ n \in Nat /\ 0 \in Nat /\ k \in Nat
      BY <3>1
    <3>6. ASSUME NEW w, At(t, lo, k, w.fn, w.sn), NEW e
          PROVE  /\ At(t, lo, n, Turn(w, e).fn, Turn(w, e).sn)
                 /\ Turn(w, e).second = HashInterior(w.second, e)
      BY <2>2, <3>5, <3>6, LeftTurn
    <3>7. ASSUME NEW w, At(t, lo + k, n - k, w.fn, w.sn), NEW e
          PROVE  /\ At(t, lo, n, Turn(w, e).fn, Turn(w, e).sn)
                 /\ Turn(w, e).second = HashInterior(e, w.second)
      BY <2>2, <3>5, <3>7, RightTurn
    <3> HIDE DEF k
    <3>8. /\ k \in 0..(n - 1) /\ lo \in 0..(t - k) /\ n - k \in 0..(n - 1) /\ lo + k \in 0..(t - (n - k))
          /\ n - k \in 0..t /\ k \in 0..t /\ lo + k + (n - k) = lo + n
      BY <3>1
    <3>9. root[k][lo] \in H /\ root[n - k][lo + k] \in H
      BY <1>3, <3>8
    <3>10. CASE m < lo + k
      <4> DEFINE q == path[k][lo]
                 e == root[n - k][lo + k]
      <4>1. Climbed(leaves, m, v, k, lo, q)
        <5>1. k \in S
          BY <1>4, <3>8
        <5>2. Good(k, lo)
          BY <3>8, <5>1
        <5> QED
          BY <3>2, <3>10, <5>2
      <4>2. path[n][lo] = Append(q, e) /\ e \in H
        BY <3>4, <3>9, <3>10
      <4> HIDE DEF q
      <4>3. q \in Seq(H)
        BY <4>1 DEF Climbed, H
      <4>4. Append(q, e) \in Seq(H) /\ 0 <= Len(q)
        BY <4>2, <4>3, AppendIs
      <4>5. ASSUME Follows(v, Append(q, e), 0)
            PROVE  /\ At(t, lo, n, v[Len(Append(q, e))].fn, v[Len(Append(q, e))].sn)
                   /\ v[Len(Append(q, e))].second = root[n][lo]
        <5>1. Follows(v, q, 0) /\ v[Len(Append(q, e))] = Turn(v[Len(q)], e)
          BY <3>5, <4>2, <4>3, <4>4, <4>5, FollowsOn
        <5>2. At(t, lo, k, v[Len(q)].fn, v[Len(q)].sn) /\ v[Len(q)].second = root[k][lo]
          BY <4>1, <5>1 DEF Climbed, root
        <5>3. /\ At(t, lo, n, Turn(v[Len(q)], e).fn, Turn(v[Len(q)], e).sn)
              /\ Turn(v[Len(q)], e).second = HashInterior(v[Len(q)].second, e)
          BY <3>6, <5>2
        <5> QED
          BY <3>3, <5>1, <5>2, <5>3
      <4> HIDE DEF e
      <4> QED
        BY <4>2, <4>4, <4>5 DEF Climbed, H, root
    <3>11. CASE m >= lo + k
      <4> DEFINE q == path[n - k][lo + k]
                 e == root[k][lo]
      <4>1. Climbed(leaves, m, v, n - k, lo + k, q)
        <5>1. n - k \in S
          BY <1>4, <3>8
        <5>2. Good(n - k, lo + k)
          BY <3>8, <5>1
        <5> QED
          BY <3>2, <3>8, <3>11, <5>2
      <4>2. path[n][lo] = Append(q, e) /\ e \in H
        BY <3>4, <3>9, <3>11
      <4> HIDE DEF q
      <4>3. q \in Seq(H)
        BY <4>1 DEF Climbed, H
      <4>4. Append(q, e) \in Seq(H) /\ 0 <= Len(q)
        BY <4>2, <4>3, AppendIs
      <4>5. ASSUME Follows(v, Append(q, e), 0)
            PROVE  /\ At(t, lo, n, v[Len(Append(q, e))].fn, v[Len(Append(q, e))].sn)
                   /\ v[Len(Append(q, e))].second = root[n][lo]
        <5>1. Follows(v, q, 0) /\ v[Len(Append(q, e))] = Turn(v[Len(q)], e)
          BY <3>5, <4>2, <4>3, <4>4, <4>5, FollowsOn
        <5>2. At(t, lo + k, n - k, v[Len(q)].fn, v[Len(q)].sn) /\ v[Len(q)].second = root[n - k][lo + k]
          BY <4>1, <5>1 DEF Climbed, root
        <5>3. /\ At(t, lo, n, Turn(v[Len(q)], e).fn, Turn(v[Len(q)], e).sn)
              /\ Turn(v[Len(q)], e).second = HashInterior(e, v[Len(q)].second)
          BY <3>7, <5>2
        <5> QED
          BY <3>3, <5>1, <5>2, <5>3
      <4> HIDE DEF e
      <4> QED
        BY <4>2, <4>4, <4>5 DEF Climbed, H, root
    <3> QED
      BY <3>5, <3>10, <3>11
  <2> QED
    BY <2>1, <2>2
<1> HIDE DEF S
<1>5. \A n \in 0..t : n \in S
  BY <1>4, FromSmaller
<1> QED
  BY <1>5 DEF S, path

\* The same for a consistency proof: b is 1 when the path begins with the root
\* of the last slice, of s leaves from z on, and a is any tree of as many leaves.
Joined(leaves, m, v, a, b, s, z, n, lo, path) ==
  /\ path \in Seq(Hashes(leaves)) /\ b <= Len(path)
  /\ b = 1 => path[1] = SubtreeRoot(leaves)[s][z]
  /\ Follows(v, path, b) =>
       /\ At(Len(leaves), lo, n, v[Len(path)].fn, v[Len(path)].sn)
       /\ v[b].second = SubtreeRoot(leaves)[s][z] => v[Len(path)].second = SubtreeRoot(leaves)[n][lo]
       /\ v[Len(path)].second = SubtreeRoot(a)[n][lo] => v[Len(path)].first = SubtreeRoot(a)[m - lo][lo]

\* The m first leaves, counted from a slice that they end in.
Inside(t, m, lo, k) == m - lo \in 2..t /\ lo \in 0..(t - (m - lo)) /\ (m - lo) - k = m - (lo + k)

LEMMA InsideWhole ==
  ASSUME NEW t \in Nat, NEW m \in Nat, m < t, NEW lo \in Nat, m - lo \in Nat,
         NEW k \in Nat, k >= 1, k < m - lo
  PROVE  Inside(t, m, lo, k)
BY DEF Inside

\* So the recursion goes right only when the last slice is there.
LEMMA RightStart ==
  ASSUME NEW N \in Nat, NEW lo \in Nat, NEW n \in Nat, n > 1, Placed(N, lo, n),
         NEW s \in Powers, NEW c \in Nat, NEW m \in Nat, m = c * s + s, lo + K(n) < m, m < lo + n
  PROVE  lo + K(n) <= c * s
<1>1. K(n) \in Powers /\ K(n) \in Nat /\ n <= 2 * K(n)
  BY KIs
<1>2. \E d \in Nat : lo = d * (2 * K(n))
  BY PlacedHalves
<1>3. PICK d \in Nat : lo = d * (2 * K(n))
  BY <1>2
<1>4. m < lo + 2 * K(n)
  BY <1>1
<1> QED
  BY <1>1, <1>3, <1>4, LastSliceRight

\* From the last slice, along the proof of a slice that has it: with the log's
\* own hash to the slice's root, and with any hash to nothing but matching roots.
LEMMA ConsistencyClimbs ==
  ASSUME NEW leaves, NEW t \in Nat, Len(leaves) = t, NEW a, Len(a) = t, NEW m \in Nat, m < t,
         NEW s \in Powers, NEW c \in Nat, ~Odd(c), m = c * s + s,
         NEW b \in {0, 1}, b = 0 <=> c = 0,
         NEW v, At(t, c * s, s, v[b].fn, v[b].sn), v[b].first = v[b].second
  PROVE  \A n \in 0..t : \A lo \in 0..(t - n) :
           Placed(t, lo, n) /\ lo <= c * s /\ m <= lo + n =>
             Joined(leaves, m, v, a, b, s, c * s, n, lo, Proof(leaves, m)[n][lo])
<1> DEFINE path == Proof(leaves, m)
           root == SubtreeRoot(leaves)
           other == SubtreeRoot(a)
           H == Hashes(leaves)
           z == c * s
           Good(n, lo) == Placed(t, lo, n) /\ lo <= z /\ m <= lo + n =>
                            Joined(leaves, m, v, a, b, s, z, n, lo, path[n][lo])
           S == {n \in 0..t : \A lo \in 0..(t - n) : Good(n, lo)}
<1>0. s \in Nat /\ s >= 1 /\ z \in Nat /\ m = z + s /\ (z = 0 <=> c = 0)
  <2>1. s \in Nat /\ s >= 1
    BY PowersClosed
  <2>2. z \in Nat /\ m = z + s
    BY <2>1
  <2>3. c # 0 => z # 0
    BY <2>1
  <2> QED
    BY <2>1, <2>2, <2>3
<1>1. \A n \in 0..t : \A lo \in 0..(t - n) : m \in (lo + 1)..(lo + n) => ProofEq(leaves, m, path, n, lo, path[n][lo])
  BY ProofIs
<1>2. \A n \in 2..t : \A lo \in 0..(t - n) :
        root[n][lo] = HashInterior(root[K(n)][lo], root[n - K(n)][lo + K(n)])
  BY RootIs
<1>3. \A n \in 2..t : \A lo \in 0..(t - n) :
        other[n][lo] = HashInterior(other[K(n)][lo], other[n - K(n)][lo + K(n)])
  BY RootIs
<1>4. \A n \in 0..t : \A lo \in 0..(t - n) : root[n][lo] \in H
  <2>1. \A n \in 0..t : \A lo \in 0..(t - n) : lo \in 0..t
    OBVIOUS
  <2> QED
    BY <2>1 DEF Hashes
<1>5. At(t, z, s, v[b].fn, v[b].sn)
  OBVIOUS
<1>6. \A n \in Nat : \A lo \in Nat : Placed(t, lo, n) /\ lo + n < t /\ lo + n = m /\ lo <= z => n = s /\ lo = z
  BY LastSlice
<1>7. ASSUME NEW n \in 0..t, NEW lo \in 0..(t - n), NEW k \in Nat, k = K(n), n > 1, Placed(t, lo, n),
             lo + k < m, m < lo + n
      PROVE  lo + k <= z
  <2>1. k \in Powers /\ n <= 2 * k /\ lo \in Nat /\ n \in Nat
    BY <1>7, KIs
  <2> QED
    BY <1>0, <1>7, <2>1, RightStart
<1> HIDE DEF path, root, other, H, z
<1>8. ASSUME NEW n \in 0..t, \A j \in 0..(n - 1) : j \in S PROVE n \in S
  <2> SUFFICES ASSUME NEW lo \in 0..(t - n), Placed(t, lo, n), lo <= z, m <= lo + n
               PROVE  Joined(leaves, m, v, a, b, s, z, n, lo, path[n][lo])
    OBVIOUS
  <2>0. ProofEq(leaves, m, path, n, lo, path[n][lo]) /\ m \in (lo + 1)..(lo + n)
    <3>1. m \in (lo + 1)..(lo + n)
      BY <1>0
    <3> QED
      BY <1>1, <3>1
  <2>1. CASE m = lo + n
    <3>1. n = s /\ lo = z
      <4>1. n \in Nat /\ lo \in Nat /\ lo + n < t /\ lo + n = m
        BY <2>1
      <4> QED
        BY <1>6, <4>1, Zenon
    <3>2. path[n][lo] = IF lo = 0 THEN <<>> ELSE <<root[n][lo]>>
      BY <2>0, <2>1 DEF ProofEq, root
    <3>3. root[n][lo] \in H /\ m - lo = n
      BY <1>4, <2>1
    <3>4. CASE b = 0
      <4>1. path[n][lo] = <<>>
        BY <1>0, <3>1, <3>2, <3>4
      <4>2. <<>> \in Seq(Hashes(leaves)) /\ Len(<<>>) = 0
        OBVIOUS
      <4> QED
        BY <1>5, <2>1, <3>1, <3>3, <3>4, <4>1, <4>2 DEF Joined
    <3>5. CASE b = 1
      <4> DEFINE p == <<root[n][lo]>>
      <4>1. path[n][lo] = p
        BY <1>0, <3>1, <3>2, <3>5
      <4>2. p \in Seq(H) /\ Len(p) = 1 /\ p[1] = root[n][lo]
        BY <3>3
      <4>3. p \in Seq(Hashes(leaves)) /\ b <= Len(p) /\ p[1] = SubtreeRoot(leaves)[s][z] /\ v[Len(p)] = v[b]
        BY <3>1, <3>5, <4>2 DEF H, root
      <4> HIDE DEF p
      <4> QED
        BY <1>5, <3>1, <3>3, <4>1, <4>3 DEF Joined
    <3> QED
      BY <3>4, <3>5
  <2>2. CASE m # lo + n
    <3> DEFINE k == K(n)
    <3>1. n > 1 /\ m < lo + n /\ m - lo < n
      BY <2>0, <2>2
    <3>2. k \in 1..(n - 1) /\ n - k \in 1..(n - 1)
      BY <3>1, KIsSmaller DEF KSmaller
    <3>3. Placed(t, lo, k) /\ Placed(t, lo + k, n - k)
      BY <3>1, PlacedHalves
    <3>4. /\ root[n][lo] = HashInterior(root[k][lo], root[n - k][lo + k])
          /\ other[n][lo] = HashInterior(other[k][lo], other[n - k][lo + k])
      BY <1>2, <1>3, <3>1
    <3>5. /\ m <= lo + k => path[n][lo] = Append(path[k][lo], root[n - k][lo + k])
          /\ m > lo + k => path[n][lo] = Append(path[n - k][lo + k], root[k][lo])
      BY <2>0, <2>2 DEF ProofEq, root
    <3>6. lo \in Nat /\ n \in Nat /\ b \in Nat /\ k \in Nat /\ m - lo \in Nat
      BY <2>0, <3>2
    <3>7. ASSUME NEW w, At(t, lo, k, w.fn, w.sn), NEW e
          PROVE  /\ At(t, lo, n, Turn(w, e).fn, Turn(w, e).sn)
                 /\ Turn(w, e).first = w.first /\ Turn(w, e).second = HashInterior(w.second, e)
      BY <3>1, <3>6, <3>7, LeftTurn
    <3>8. ASSUME NEW w, At(t, lo + k, n - k, w.fn, w.sn), NEW e
          PROVE  /\ At(t, lo, n, Turn(w, e).fn, Turn(w, e).sn)
                 /\ Turn(w, e).first = HashInterior(e, w.first) /\ Turn(w, e).second = HashInterior(e, w.second)
      BY <3>1, <3>6, <3>8, RightTurn
    <3>9. ASSUME m > lo + k
          PROVE  other[m - lo][lo] = HashInterior(other[k][lo], other[m - (lo + k)][lo + k]) /\ lo + k <= z
      <4>1. k \in Powers /\ n <= 2 * k
        BY <3>1, <3>6, KIs
      <4>2. k < m - lo /\ m - lo <= 2 * k
        BY <3>1, <3>6, <3>9, <4>1
      <4>3. K(m - lo) = k
        <5> DEFINE d == m - lo
        <5>1. d \in Nat /\ k < d /\ d <= 2 * k
          BY <3>6, <4>2
        <5> HIDE DEF d, k
        <5>2. K(d) = k
          BY <4>1, <5>1, KIsOnly
        <5> QED
          BY <5>2 DEF d
      <4>4. m - lo \in 2..t /\ lo \in 0..(t - (m - lo)) /\ (m - lo) - k = m - (lo + k)
        <5>1. k \in Nat /\ k >= 1 /\ k < m - lo /\ m - lo \in Nat /\ lo \in Nat
          BY <3>2, <3>6, <4>2
        <5> HIDE DEF k
        <5>2. Inside(t, m, lo, k)
          BY <5>1, InsideWhole
        <5> QED
          BY <5>2 DEF Inside
      <4>5. other[m - lo][lo] = HashInterior(other[K(m - lo)][lo], other[(m - lo) - K(m - lo)][lo + K(m - lo)])
        BY <1>3, <4>4
      <4>6. lo + k <= z
        BY <1>7, <3>1, <3>6, <3>9
      <4> HIDE DEF k
      <4> QED
        BY <4>3, <4>4, <4>5, <4>6
    <3> HIDE DEF k
    <3>10. /\ k \in 0..(n - 1) /\ lo \in 0..(t - k) /\ n - k \in 0..(n - 1) /\ lo + k \in 0..(t - (n - k))
           /\ n - k \in 0..t /\ k \in 0..t /\ lo + k + (n - k) = lo + n
      BY <3>2, WithinHalves
    <3>11. root[k][lo] \in H /\ root[n - k][lo + k] \in H
      BY <1>4, <3>10
    <3>12. CASE m <= lo + k
      <4> DEFINE q == path[k][lo]
                 e == root[n - k][lo + k]
                 p == Append(q, e)
                 w == v[Len(q)]
                 u == v[Len(p)]
      <4>1. Joined(leaves, m, v, a, b, s, z, k, lo, q)
        <5>1. k \in S
          BY <1>8, <3>10
        <5>2. Good(k, lo)
          BY <3>10, <5>1
        <5> QED
          BY <3>3, <3>12, <5>2
      <4>2. path[n][lo] = p /\ e \in H
        BY <3>5, <3>11, <3>12
      <4> HIDE DEF q
      <4>3. q \in Seq(H) /\ b <= Len(q)
        BY <4>1 DEF Joined, H
      <4>4. p \in Seq(H) /\ b <= Len(p) /\ (b = 1 => p[1] = root[s][z])
        <5>1. b = 1 => q[1] = root[s][z]
          BY <4>1 DEF Joined, root
        <5> HIDE DEF e
        <5> QED
          BY <4>2, <4>3, <5>1, AppendIs
      <4>5. ASSUME Follows(v, p, b)
            PROVE  /\ At(t, lo, n, u.fn, u.sn)
                   /\ v[b].second = root[s][z] => u.second = root[n][lo]
                   /\ u.second = other[n][lo] => u.first = other[m - lo][lo]
        <5>1. Follows(v, q, b) /\ u = Turn(w, e)
          BY <3>6, <4>2, <4>3, <4>5, FollowsOn
        <5>2. /\ At(t, lo, k, w.fn, w.sn)
              /\ v[b].second = root[s][z] => w.second = root[k][lo]
              /\ w.second = other[k][lo] => w.first = other[m - lo][lo]
          BY <4>1, <5>1 DEF Joined, root, other
        <5>3. At(t, lo, n, u.fn, u.sn) /\ u.first = w.first /\ u.second = HashInterior(w.second, e)
          BY <3>7, <5>1, <5>2
        <5> HIDE DEF w, u
        <5> QED
          BY <3>4, <5>2, <5>3, HashesTell
      <4> HIDE DEF p
      <4> QED
        BY <4>2, <4>4, <4>5 DEF Joined, H, root, other
    <3>13. CASE m > lo + k
      <4> DEFINE q == path[n - k][lo + k]
                 e == root[k][lo]
                 p == Append(q, e)
                 w == v[Len(q)]
                 u == v[Len(p)]
      <4>1. Joined(leaves, m, v, a, b, s, z, n - k, lo + k, q)
        <5>1. n - k \in S
          BY <1>8, <3>10
        <5>2. Good(n - k, lo + k)
          BY <3>10, <5>1
        <5> QED
          BY <3>3, <3>9, <3>10, <3>13, <5>2
      <4>2. path[n][lo] = p /\ e \in H
        BY <3>5, <3>11, <3>13
      <4> HIDE DEF q
      <4>3. q \in Seq(H) /\ b <= Len(q)
        BY <4>1 DEF Joined, H
      <4>4. p \in Seq(H) /\ b <= Len(p) /\ (b = 1 => p[1] = root[s][z])
        <5>1. b = 1 => q[1] = root[s][z]
          BY <4>1 DEF Joined, root
        <5> HIDE DEF e
        <5> QED
          BY <4>2, <4>3, <5>1, AppendIs
      <4>5. ASSUME Follows(v, p, b)
            PROVE  /\ At(t, lo, n, u.fn, u.sn)
                   /\ v[b].second = root[s][z] => u.second = root[n][lo]
                   /\ u.second = other[n][lo] => u.first = other[m - lo][lo]
        <5>1. Follows(v, q, b) /\ u = Turn(w, e)
          BY <3>6, <4>2, <4>3, <4>5, FollowsOn
        <5>2. /\ At(t, lo + k, n - k, w.fn, w.sn)
              /\ v[b].second = root[s][z] => w.second = root[n - k][lo + k]
              /\ w.second = other[n - k][lo + k] => w.first = other[m - (lo + k)][lo + k]
          BY <4>1, <5>1 DEF Joined, root, other
        <5>3. At(t, lo, n, u.fn, u.sn) /\ u.first = HashInterior(e, w.first) /\ u.second = HashInterior(e, w.second)
          BY <3>8, <5>1, <5>2
        <5>4. other[m - lo][lo] = HashInterior(other[k][lo], other[m - (lo + k)][lo + k])
          BY <3>9, <3>13
        <5> HIDE DEF w, u
        <5> QED
          BY <3>4, <5>2, <5>3, <5>4, HashesTell
      <4> HIDE DEF p
      <4> QED
        BY <4>2, <4>4, <4>5 DEF Joined, H, root, other
    <3> QED
      BY <3>6, <3>12, <3>13
  <2> QED
    BY <2>1, <2>2
<1> HIDE DEF S
<1>9. \A n \in 0..t : n \in S
  BY <1>8, FromSmaller
<1> QED
  BY <1>9 DEF S, path, z
-----------------------------------------------------------------------------
(* What the verifiers compute *)

\* The whole tree is a slice of the recursion.
LEMMA AllPlaced == \A t \in Nat : t >= 1 => Placed(t, 0, t)
<1> SUFFICES ASSUME NEW t \in Nat, t >= 1 PROVE Placed(t, 0, t)
  OBVIOUS
<1> DEFINE j == K(2 * t)
<1>1. j \in Powers /\ j \in Nat /\ 2 * t <= 2 * j
  BY KIs
<1> HIDE DEF j
<1>2. 0 \in Nat /\ 0 = 0 * j /\ t <= j /\ 0 + t = t
  BY <1>1
<1> QED
  BY <1>1, <1>2 DEF Placed

\* At the root both positions are 0.
LEMMA AtEnd ==
  ASSUME NEW t \in Nat, NEW fn, NEW sn, At(t, 0, t, fn, sn)
  PROVE  sn = 0
<1>1. fn \in Nat /\ fn = sn /\ \E p \in Powers : fn * p = 0
  BY DEF At
<1>2. PICK p \in Powers : fn * p = 0
  BY <1>1
<1>3. p \in Nat /\ p >= 1
  BY PowersClosed
<1> QED
  BY <1>1, <1>2, <1>3

\* computeRootFromInclusion() of an audit path is the root.
LEMMA InclusionWalk ==
  ASSUME NEW leaves, NEW t \in Nat, Len(leaves) = t, NEW m \in Nat, m < t
  PROVE  Walk(m, t - 1, leaves[m + 1], AuditPath(m, leaves)).second = SubtreeRoot(leaves)[t][0]
<1> DEFINE p == Path(leaves, m)[t][0]
           start == WalkStart(m, t - 1, leaves[m + 1])
<1>1. AuditPath(m, leaves) = p
  BY PathIs
<1>2. At(t, m, 1, m, t - 1)
  <2>1. m + 1 < t => m * 1 = m /\ (t - 1) * 1 < t /\ t <= (t - 1) * 1 + 1
    OBVIOUS
  <2>2. m + 1 = t => m = t - 1 /\ 1 < 2 * 1 /\ m * 1 = m
    OBVIOUS
  <2> QED
    BY <2>1, <2>2, PowersClosed DEF At
<1>3. ASSUME NEW v, v[0] = start PROVE Climbed(leaves, m, v, t, 0, p)
  <2>1. v[0].fn = m /\ v[0].sn = t - 1 /\ v[0].second = leaves[m + 1]
    BY <1>3 DEF WalkStart
  <2>2. \A n \in 0..t : \A lo \in 0..(t - n) :
           Placed(t, lo, n) /\ lo <= m /\ m < lo + n => Climbed(leaves, m, v, n, lo, Path(leaves, m)[n][lo])
    BY <1>2, <2>1, InclusionClimbs
  <2>3. Placed(t, 0, t) /\ t \in 0..t /\ 0 \in 0..(t - t) /\ 0 <= m /\ m < 0 + t
    BY AllPlaced
  <2> QED
    BY <2>2, <2>3
<1> HIDE DEF p, start
<1>4. p \in Seq(Hashes(leaves)) /\ Len(p) \in Nat
  <2>1. Climbed(leaves, m, [i \in {0} |-> start], t, 0, p)
    BY <1>3
  <2> QED
    BY <2>1 DEF Climbed
<1> DEFINE l == Len(p)
<1>5. \E walk : Walks(m, t - 1, leaves[m + 1], p, l, walk)
  BY <1>4, WalkIs
<1>6. PICK walk : Walks(m, t - 1, leaves[m + 1], p, l, walk)
  BY <1>5
<1>7. /\ Walk(m, t - 1, leaves[m + 1], p) = IF walk[Len(p)].sn = 0 THEN walk[Len(p)] ELSE Thrown
      /\ walk[0] = start
      /\ \A i \in 1..Len(p) : walk[i] = Turn(walk[i - 1], p[i])
  BY <1>6 DEF Walks, start
<1> HIDE DEF l
<1>8. Follows(walk, p, 0)
  BY <1>7 DEF Follows
<1>9. At(t, 0, t, walk[Len(p)].fn, walk[Len(p)].sn) /\ walk[Len(p)].second = SubtreeRoot(leaves)[t][0]
  BY <1>3, <1>7, <1>8 DEF Climbed
<1>10. walk[Len(p)].sn = 0
  BY <1>9, AtEnd
<1> QED
  BY <1>1, <1>7, <1>9, <1>10

\* The verifier computes the two roots; and whatever it starts from, when the
\* second is the root of any tree of that size then the first is the root of
\* the first leaves of that tree.
LEMMA ConsistencyWalk ==
  ASSUME NEW leaves, NEW t \in Nat, Len(leaves) = t, NEW a, Len(a) = t, NEW m \in Nat, m >= 1, m < t, NEW firstRoot
  PROVE  LET roots == ComputeRootsFromConsistency(m, t, firstRoot, Subproof(m, leaves))
         IN  /\ firstRoot = SubtreeRoot(leaves)[m][0] => roots.second = SubtreeRoot(leaves)[t][0]
             /\ roots.second = SubtreeRoot(a)[t][0] => roots.first = SubtreeRoot(a)[m][0]
<1> DEFINE p == Proof(leaves, m)[t][0]
           roots == ComputeRootsFromConsistency(m, t, firstRoot, p)
<1>1. Subproof(m, leaves) = p
  BY ProofIs
<1>2. PICK s \in Powers : \E c \in Nat : ~Odd(c) /\ m = c * s + s
  BY OddPart
<1>3. PICK c \in Nat : ~Odd(c) /\ m = c * s + s
  BY <1>2
<1>4. s \in Nat /\ s >= 1 /\ c * s \in Nat
  <2>1. s \in Nat /\ s >= 1
    BY PowersClosed
  <2> QED
    BY <2>1
<1>5. PICK sn \in Nat : DropOnes(m - 1, t - 1) = [fn |-> c, sn |-> sn] /\ sn * s <= t - 1 /\ t - 1 < sn * s + s
  <2>1. t - 1 \in Nat /\ m - 1 = (c * s + s) - 1
    BY <1>3
  <2> QED
    BY <1>3, <2>1, DropsOnes
<1> DEFINE b == IF c = 0 THEN 0 ELSE 1
           z == c * s
<1>6. At(t, z, s, c, sn)
  <2>1. z + s < t /\ sn * s < t /\ t <= sn * s + s
    <3>1. sn * s \in Nat
      BY <1>4
    <3> QED
      BY <1>3, <1>4, <1>5, <3>1
  <2> QED
    BY <1>4, <2>1 DEF At
<1>7. ASSUME NEW v, NEW hash, v[b] = WalkStart(c, sn, hash) PROVE Joined(leaves, m, v, a, b, s, z, t, 0, p)
  <2>1. v[b].fn = c /\ v[b].sn = sn /\ v[b].first = v[b].second
    BY <1>7 DEF WalkStart
  <2>2. \A n \in 0..t : \A lo \in 0..(t - n) :
          Placed(t, lo, n) /\ lo <= c * s /\ m <= lo + n =>
            Joined(leaves, m, v, a, b, s, c * s, n, lo, Proof(leaves, m)[n][lo])
    <3>1. b \in {0, 1} /\ (b = 0 <=> c = 0)
      OBVIOUS
    <3>2. At(t, c * s, s, v[b].fn, v[b].sn)
      BY <1>6, <2>1
    <3> HIDE DEF b
    <3> QED
      BY <1>3, <2>1, <3>1, <3>2, ConsistencyClimbs
  <2>3. Placed(t, 0, t) /\ t \in 0..t /\ 0 \in 0..(t - t) /\ 0 <= c * s /\ m <= 0 + t
    BY <1>4, AllPlaced
  <2> QED
    BY <2>2, <2>3
<1> HIDE DEF p
<1>8. p \in Seq(Hashes(leaves)) /\ Len(p) \in Nat /\ b <= Len(p) /\ (b = 1 => p[1] = SubtreeRoot(leaves)[s][z])
  <2> DEFINE v == [i \in {0, 1} |-> WalkStart(c, sn, <<>>)]
  <2>1. v[b] = WalkStart(c, sn, <<>>)
    OBVIOUS
  <2> HIDE DEF v
  <2>2. Joined(leaves, m, v, a, b, s, z, t, 0, p)
    BY <1>7, <2>1
  <2>3. p \in Seq(Hashes(leaves)) /\ b <= Len(p) /\ (b = 1 => p[1] = SubtreeRoot(leaves)[s][z])
    BY <2>2 DEF Joined
  <2> QED
    BY <2>3
<1>9. ASSUME NEW v, NEW hash, v[b] = WalkStart(c, sn, hash), Follows(v, p, b)
      PROVE  /\ v[Len(p)].sn = 0
             /\ hash = SubtreeRoot(leaves)[s][z] => v[Len(p)].second = SubtreeRoot(leaves)[t][0]
             /\ v[Len(p)].second = SubtreeRoot(a)[t][0] => v[Len(p)].first = SubtreeRoot(a)[m][0]
  <2>1. Joined(leaves, m, v, a, b, s, z, t, 0, p)
    BY <1>7, <1>9
  <2>2. v[b].second = hash /\ m - 0 = m
    BY <1>9 DEF WalkStart
  <2>3. /\ At(t, 0, t, v[Len(p)].fn, v[Len(p)].sn)
        /\ hash = SubtreeRoot(leaves)[s][z] => v[Len(p)].second = SubtreeRoot(leaves)[t][0]
        /\ v[Len(p)].second = SubtreeRoot(a)[t][0] => v[Len(p)].first = SubtreeRoot(a)[m][0]
    <3> HIDE DEF b, z
    <3> QED
      BY <1>9, <2>1, <2>2 DEF Joined
  <2>4. v[Len(p)].sn = 0
    BY <2>3, AtEnd
  <2> QED
    BY <2>3, <2>4
<1> DEFINE Right(r) == /\ firstRoot = SubtreeRoot(leaves)[m][0] => r.second = SubtreeRoot(leaves)[t][0]
                       /\ r.second = SubtreeRoot(a)[t][0] => r.first = SubtreeRoot(a)[m][0]
<1>10. CASE c = 0
  <2>1. b = 0 /\ z = 0 /\ s = m
    BY <1>3, <1>4, <1>10
  <2>2. roots = Walk(0, sn, firstRoot, p)
    BY <1>5, <1>10 DEF ComputeRootsFromConsistency
  <2> DEFINE l == Len(p)
  <2>3. \E walk : Walks(0, sn, firstRoot, p, l, walk)
    BY <1>8, WalkIs
  <2>4. PICK walk : Walks(0, sn, firstRoot, p, l, walk)
    BY <2>3
  <2>5. /\ Walk(0, sn, firstRoot, p) = IF walk[Len(p)].sn = 0 THEN walk[Len(p)] ELSE Thrown
        /\ walk[0] = WalkStart(0, sn, firstRoot)
        /\ \A i \in 1..Len(p) : walk[i] = Turn(walk[i - 1], p[i])
    BY <2>4 DEF Walks
  <2> HIDE DEF l
  <2>6. Follows(walk, p, b) /\ walk[b] = WalkStart(c, sn, firstRoot)
    BY <1>10, <2>1, <2>5 DEF Follows
  <2>7. /\ walk[Len(p)].sn = 0
        /\ firstRoot = SubtreeRoot(leaves)[s][z] => walk[Len(p)].second = SubtreeRoot(leaves)[t][0]
        /\ walk[Len(p)].second = SubtreeRoot(a)[t][0] => walk[Len(p)].first = SubtreeRoot(a)[m][0]
    BY <1>9, <2>6
  <2> HIDE DEF roots, b, z
  <2>8. Right(roots)
    BY <2>1, <2>2, <2>5, <2>7
  <2> QED
    BY <1>1, <2>8 DEF roots
<1>11. CASE c # 0
  <2>1. b = 1 /\ Len(p) >= 1 /\ p[1] = SubtreeRoot(leaves)[s][z] /\ p # <<>>
    BY <1>8, <1>11
  <2> DEFINE l == Len(p) - 1
             tail == Tail(p)
  <2>2. l \in Nat /\ Len(tail) = l /\ Head(p) = p[1] /\ \A i \in 1..l : tail[i] = p[i + 1]
    BY <1>8, <2>1
  <2>3. roots = Walk(c, sn, p[1], tail)
    BY <1>5, <1>11, <2>1, <2>2 DEF ComputeRootsFromConsistency
  <2> HIDE DEF tail
  <2> DEFINE hash == p[1]
  <2> HIDE DEF l, hash
  <2>4. \E walk : Walks(c, sn, hash, tail, l, walk)
    BY <2>2, WalkIs
  <2>5. PICK walk : Walks(c, sn, hash, tail, l, walk)
    BY <2>4
  <2>6. /\ Walk(c, sn, p[1], tail) = IF walk[l].sn = 0 THEN walk[l] ELSE Thrown
        /\ walk[0] = WalkStart(c, sn, p[1])
        /\ \A i \in 1..l : walk[i] = Turn(walk[i - 1], tail[i])
    BY <2>5 DEF Walks, hash
  <2> USE DEF l, hash
  <2> DEFINE v == [i \in 1..Len(p) |-> walk[i - 1]]
  <2>7. v[b] = WalkStart(c, sn, p[1]) /\ v[Len(p)] = walk[l]
    BY <1>8, <2>1, <2>6
  <2>8. Follows(v, p, b)
    <3>1. ASSUME NEW i \in 2..Len(p) PROVE v[i] = Turn(v[i - 1], p[i])
      <4>1. i - 1 \in 1..l /\ i \in 1..Len(p) /\ i - 1 \in 1..Len(p) /\ (i - 1) + 1 = i
        BY <1>8
      <4>2. v[i] = walk[i - 1] /\ v[i - 1] = walk[(i - 1) - 1] /\ tail[i - 1] = p[i]
        BY <2>2, <4>1
      <4> QED
        BY <2>6, <4>1, <4>2
    <3> HIDE DEF v
    <3> QED
      BY <2>1, <3>1 DEF Follows
  <2> HIDE DEF v
  <2>9. /\ v[Len(p)].sn = 0
        /\ p[1] = SubtreeRoot(leaves)[s][z] => v[Len(p)].second = SubtreeRoot(leaves)[t][0]
        /\ v[Len(p)].second = SubtreeRoot(a)[t][0] => v[Len(p)].first = SubtreeRoot(a)[m][0]
    BY <1>9, <2>7, <2>8
  <2> HIDE DEF roots, b, z
  <2>10. Right(roots)
    BY <2>1, <2>3, <2>6, <2>7, <2>9
  <2> QED
    BY <1>1, <2>10 DEF roots
<1> QED
  BY <1>10, <1>11
-----------------------------------------------------------------------------
(* The proofs of the log, and what auditors accept *)

\* The first elements of a sequence.
LEMMA PrefixIs ==
  ASSUME NEW s, IsSequence(s), NEW k \in 0..Len(s)
  PROVE  LET p == SubSeq(s, 1, k) IN IsSequence(p) /\ Len(p) = k /\ \A i \in 1..k : p[i] = s[i]
<1> DEFINE S == {s[i] : i \in 1..Len(s)}
           p == SubSeq(s, 1, k)
<1>1. s \in [1..Len(s) -> S] /\ Len(s) \in Nat
  BY DEF IsSequence
<1> HIDE DEF S
<1>2. s \in Seq(S) /\ k \in Nat /\ k <= Len(s)
  BY <1>1
<1>3. p \in Seq(S) /\ Len(p) = k /\ \A i \in 1..k : p[i] = s[i]
  BY <1>2
<1> HIDE DEF p
<1>4. p \in [1..Len(p) -> S] /\ Len(p) \in Nat
  BY <1>2, <1>3
<1>5. IsSequence(p)
  BY <1>4 DEF IsSequence
<1> QED
  BY <1>3, <1>5 DEF p

\* One leaf for each entry.
LEMMA LeavesAre ==
  ASSUME NEW s, IsSequence(s)
  PROVE  Len(Leaves(s)) = Len(s) /\ \A i \in 1..Len(s) : Leaves(s)[i] = HashLeaf(s[i])
<1>1. Len(s) \in Nat /\ DOMAIN s = 1..Len(s)
  BY DEF IsSequence
<1>2. Leaves(s) = [i \in 1..Len(s) |-> HashLeaf(s[i])]
  BY <1>1 DEF Leaves
<1> QED
  BY <1>1, <1>2

\* Two sequences of n entries and more have the same root over the n first
\* exactly when they have the same n first.
LEMMA RootsTellEntries ==
  ASSUME NEW s, IsSequence(s), NEW u, IsSequence(u), NEW n \in Nat, n <= Len(s), n <= Len(u)
  PROVE  SubtreeRoot(Leaves(s))[n][0] = SubtreeRoot(Leaves(u))[n][0] <=> \A i \in 1..n : s[i] = u[i]
<1> DEFINE a == Leaves(s)
           b == Leaves(u)
<1>1. Len(s) \in Nat /\ Len(u) \in Nat
  BY DEF IsSequence
<1>2. Len(a) = Len(s) /\ Len(b) = Len(u)
  BY LeavesAre
<1>3. \A i \in 1..n : a[i] = b[i] <=> s[i] = u[i]
  <2> SUFFICES ASSUME NEW i \in 1..n PROVE a[i] = b[i] <=> s[i] = u[i]
    OBVIOUS
  <2>1. i \in 1..Len(s) /\ i \in 1..Len(u)
    BY <1>1
  <2>2. a[i] = HashLeaf(s[i]) /\ b[i] = HashLeaf(u[i])
    BY <2>1, LeavesAre
  <2>3. HashLeaf(s[i]) = HashLeaf(u[i]) <=> s[i] = u[i]
    BY DEF HashLeaf
  <2> HIDE DEF a, b
  <2> QED
    BY <2>2, <2>3
<1> HIDE DEF a, b
<1>4. \A k \in 0..n : \A lo \in 0..(n - k) :
        SubtreeRoot(a)[k][lo] = SubtreeRoot(b)[k][lo] <=> \A i \in (lo + 1)..(lo + k) : a[i] = b[i]
  <2> DEFINE t == Len(s)
             v == Len(u)
  <2>1. t \in Nat /\ v \in Nat /\ Len(a) = t /\ Len(b) = v /\ n <= t /\ n <= v
    BY <1>1, <1>2
  <2> HIDE DEF t, v
  <2>2. RootsTellLeaves(a, b, n)
    BY <2>1, RootsTell
  <2> QED
    BY <2>2 DEF RootsTellLeaves
<1>5. SubtreeRoot(a)[n][0] = SubtreeRoot(b)[n][0] <=> \A i \in (0 + 1)..(0 + n) : a[i] = b[i]
  <2>1. n \in 0..n /\ 0 \in 0..(n - n)
    OBVIOUS
  <2> QED
    BY <1>4, <2>1
<1>6. (0 + 1)..(0 + n) = 1..n
  OBVIOUS
<1> QED
  BY <1>3, <1>5, <1>6 DEF a, b

\* The root of the m first entries, from the tree of the n first.
LEMMA RootOfPrefix ==
  ASSUME NEW s, IsSequence(s), NEW n \in 0..Len(s), NEW m \in 0..n
  PROVE  Root(SubSeq(s, 1, m)) = SubtreeRoot(Leaves(SubSeq(s, 1, n)))[m][0]
<1> DEFINE p == SubSeq(s, 1, m)
           q == SubSeq(s, 1, n)
<1>1. Len(s) \in Nat /\ m \in 0..Len(s) /\ m \in Nat /\ n \in Nat
  BY DEF IsSequence
<1>2. IsSequence(p) /\ Len(p) = m /\ \A i \in 1..m : p[i] = s[i]
  BY <1>1, PrefixIs
<1>3. IsSequence(q) /\ Len(q) = n /\ \A i \in 1..n : q[i] = s[i]
  BY PrefixIs
<1> HIDE DEF p, q
<1>4. \A i \in 1..m : p[i] = q[i]
  <2>1. \A i \in 1..m : i \in 1..n
    OBVIOUS
  <2> QED
    BY <1>2, <1>3, <2>1
<1>5. SubtreeRoot(Leaves(p))[m][0] = SubtreeRoot(Leaves(q))[m][0]
  BY <1>1, <1>2, <1>3, <1>4, RootsTellEntries
<1> QED
  BY <1>2, <1>5 DEF Root, p, q

\* The proofs of an inclusion that the log gives verify against its root.
LEMMA InclusionVerifies ==
  ASSUME IsSequence(log), NEW n \in 1..Len(log), NEW i \in 0..(n - 1), NEW root
  PROVE  VerifyInclusionProof(InclusionProof(i, n), root) <=> root = Root(SubSeq(log, 1, n))
<1> DEFINE q == SubSeq(log, 1, n)
           leaves == Leaves(q)
<1>1. n \in 0..Len(log) /\ n \in 0..n /\ n \in Nat /\ i \in Nat /\ i < n
  OBVIOUS
<1>2. IsSequence(q) /\ Len(q) = n
  BY <1>1, PrefixIs
<1>3. Root(q) = SubtreeRoot(leaves)[n][0]
  BY <1>2 DEF Root
<1>4. Len(leaves) = n
  BY <1>2, LeavesAre
<1>5. InclusionProof(i, n) = [log_size |-> n, leaf_index |-> i, leaf_hash |-> leaves[i + 1], path |-> AuditPath(i, leaves)]
  BY DEF InclusionProof
<1> HIDE DEF leaves
<1>6. Walk(i, n - 1, leaves[i + 1], AuditPath(i, leaves)).second = SubtreeRoot(leaves)[n][0]
  BY <1>1, <1>4, InclusionWalk
<1> QED
  BY <1>3, <1>5, <1>6 DEF VerifyInclusionProof

\* What a consistency proof of the log says of two roots: the log's own roots
\* verify, and when the second is that of some n entries the first is that of
\* the m first of them.
LEMMA ConsistencyTells ==
  ASSUME IsSequence(log), NEW n \in 1..Len(log), NEW m \in 1..n, NEW first, NEW second
  PROVE  /\ first = Root(SubSeq(log, 1, m)) /\ second = Root(SubSeq(log, 1, n))
              => VerifyConsistencyProof(ConsistencyProof(m, n), first, second)
         /\ \A entries : IsSequence(entries) /\ Len(entries) = n /\ second = Root(entries)
                         /\ VerifyConsistencyProof(ConsistencyProof(m, n), first, second)
              => first = SubtreeRoot(Leaves(entries))[m][0]
<1> DEFINE q == SubSeq(log, 1, n)
           leaves == Leaves(q)
           proof == ConsistencyProof(m, n)
<1>1. n \in 0..Len(log) /\ n \in Nat /\ m \in Nat /\ m \in 0..n /\ m >= 1 /\ m <= n
  OBVIOUS
<1>2. IsSequence(q) /\ Len(q) = n
  BY <1>1, PrefixIs
<1>3. Root(q) = SubtreeRoot(leaves)[n][0] /\ Root(SubSeq(log, 1, m)) = SubtreeRoot(leaves)[m][0]
  <2>1. Root(q) = SubtreeRoot(leaves)[n][0]
    BY <1>2 DEF Root
  <2>2. Root(SubSeq(log, 1, m)) = SubtreeRoot(leaves)[m][0]
    BY <1>1, RootOfPrefix
  <2> QED
    BY <2>1, <2>2
<1>4. Len(leaves) = n
  BY <1>2, LeavesAre
<1>5. proof.from_size = m /\ proof.to_size = n /\ proof.path = Subproof(m, leaves)
  BY DEF ConsistencyProof
<1> HIDE DEF leaves, q, proof
<1>6. CASE m = n
  <2>1. Subproof(m, leaves) = Proof(leaves, m)[n][0]
    BY <1>1, <1>4, ProofIs
  <2>2. ProofEq(leaves, m, Proof(leaves, m), n, 0, Proof(leaves, m)[n][0])
    <3>1. n \in 0..n /\ 0 \in 0..(n - n) /\ m \in (0 + 1)..(0 + n)
      BY <1>1
    <3> QED
      BY <1>1, <1>4, <3>1, ProofIs
  <2>3. proof.path = <<>>
    <3>1. m = 0 + n
      BY <1>1, <1>6
    <3> QED
      BY <1>5, <2>1, <2>2, <3>1 DEF ProofEq
  <2>4. VerifyConsistencyProof(proof, first, second) <=> first = second
    BY <1>1, <1>5, <1>6, <2>3 DEF VerifyConsistencyProof
  <2> QED
    BY <1>3, <1>6, <2>4 DEF Root, proof, q
<1>7. CASE m < n
  <2> DEFINE roots == ComputeRootsFromConsistency(m, n, first, Subproof(m, leaves))
  <2>1. VerifyConsistencyProof(proof, first, second) <=> roots.first = first /\ roots.second = second
    BY <1>1, <1>5, <1>7 DEF VerifyConsistencyProof
  <2>2. ASSUME NEW a, Len(a) = n
        PROVE  /\ first = SubtreeRoot(leaves)[m][0] => roots.second = SubtreeRoot(leaves)[n][0]
               /\ roots.second = SubtreeRoot(a)[n][0] => roots.first = SubtreeRoot(a)[m][0]
    BY <1>1, <1>4, <1>7, <2>2, ConsistencyWalk
  <2> HIDE DEF roots
  <2>3. first = Root(SubSeq(log, 1, m)) /\ second = Root(q) => VerifyConsistencyProof(proof, first, second)
    BY <1>3, <1>4, <2>1, <2>2
  <2>4. ASSUME NEW entries, IsSequence(entries), Len(entries) = n, second = Root(entries),
               VerifyConsistencyProof(proof, first, second)
        PROVE  first = SubtreeRoot(Leaves(entries))[m][0]
    <3>1. Len(Leaves(entries)) = n /\ Root(entries) = SubtreeRoot(Leaves(entries))[n][0]
      BY <2>4, LeavesAre DEF Root
    <3>2. roots.second = SubtreeRoot(Leaves(entries))[n][0] => roots.first = SubtreeRoot(Leaves(entries))[m][0]
      BY <2>2, <3>1
    <3> QED
      BY <2>1, <2>4, <3>1, <3>2
  <2> QED
    BY <2>3, <2>4 DEF proof, q
<1> QED
  BY <1>1, <1>6, <1>7

\* A tree head is of entries, and has their number and their root.
HeadOfEntries(head) ==
  /\ IsSequence(head.entries)
  /\ head.sth.log_size = Len(head.entries) /\ head.sth.root_hash = Root(head.entries)

\* What an auditor was shown is under the head it was shown for.
ShownIsThere(shown) ==
  shown # <<>> => shown[1] \in DOMAIN heads /\ heads[shown[1]].entries[shown[2] + 1] = shown[3]

\* The invariant of the log and its auditors.
LogInv ==
  /\ IsSequence(log) /\ IsSequence(heads)
  /\ \A h \in DOMAIN heads : HeadOfEntries(heads[h])
  /\ accepted = [a \in Auditors |-> accepted[a]]
  /\ \A a \in Auditors : accepted[a] # 0 => accepted[a] \in DOMAIN heads
  /\ included = [a \in Auditors |-> included[a]]
  /\ \A a \in Auditors : ShownIsThere(included[a])

\* The entries under the head an auditor trusts only grow.
TrustGrows ==
  \A a \in Auditors :
    accepted[a] # 0 => IsPrefix(heads[accepted[a]].entries, heads[accepted'[a]].entries)

\* A sequence that has the elements of another begins with it.
LEMMA PrefixTold ==
  ASSUME NEW s, IsSequence(s), NEW u, IsSequence(u), Len(s) <= Len(u), \A i \in 1..Len(s) : s[i] = u[i]
  PROVE  IsPrefix(s, u)
<1> DEFINE n == Len(s)
           p == SubSeq(s, 1, n)
           q == SubSeq(u, 1, n)
<1>1. n \in Nat /\ n \in 0..Len(s) /\ n \in 0..Len(u)
  BY DEF IsSequence
<1>2. IsSequence(p) /\ Len(p) = n /\ \A i \in 1..n : p[i] = s[i]
  BY <1>1, PrefixIs
<1>3. IsSequence(q) /\ Len(q) = n /\ \A i \in 1..n : q[i] = u[i]
  BY <1>1, PrefixIs
<1> HIDE DEF p, q
<1>4. p = q
  BY <1>2, <1>3 DEF IsSequence
<1> QED
  BY <1>1, <1>4 DEF IsPrefix, p, q

\* An audit: the proof is of the log as it is by then, the heads are not.
LEMMA AuditGrows ==
  ASSUME LogInv, NEW a \in Auditors, NEW h \in DOMAIN heads, Audit(a, h), accepted[a] # 0
  PROVE  IsPrefix(heads[accepted[a]].entries, heads[h].entries)
<1> DEFINE old == heads[accepted[a]]
           new == heads[h]
           m == Len(old.entries)
           n == Len(new.entries)
<1>1. IsSequence(log) /\ HeadOfEntries(old) /\ HeadOfEntries(new)
  BY DEF LogInv
<1>2. \/ old.sth.log_size = 0
      \/ /\ CanProveConsistency(old.sth.log_size, new.sth.log_size)
         /\ VerifyConsistencyProof(ConsistencyProof(old.sth.log_size, new.sth.log_size), old.sth.root_hash, new.sth.root_hash)
  BY DEF Audit
<1> HIDE DEF old, new
<1>3. /\ IsSequence(old.entries) /\ old.sth.log_size = m /\ old.sth.root_hash = Root(old.entries)
      /\ IsSequence(new.entries) /\ new.sth.log_size = n /\ new.sth.root_hash = Root(new.entries)
  BY <1>1 DEF HeadOfEntries
<1>4. m \in Nat /\ n \in Nat
  BY <1>3 DEF IsSequence
<1>5. CASE m = 0
  <2>1. \A i \in 1..m : FALSE
    BY <1>5
  <2> QED
    BY <1>3, <1>4, <1>5, <2>1, PrefixTold DEF old, new
<1>6. CASE m # 0
  <2>1. /\ CanProveConsistency(m, n)
        /\ VerifyConsistencyProof(ConsistencyProof(m, n), Root(old.entries), Root(new.entries))
    BY <1>2, <1>3, <1>6
  <2>2. n \in 1..Len(log) /\ m \in 1..n
    <3>1. Len(log) \in Nat
      BY <1>1 DEF IsSequence
    <3> QED
      BY <1>4, <2>1, <3>1 DEF CanProveConsistency
  <2>3. Root(old.entries) = SubtreeRoot(Leaves(new.entries))[m][0]
    BY <1>1, <1>3, <2>1, <2>2, ConsistencyTells
  <2>4. SubtreeRoot(Leaves(old.entries))[m][0] = SubtreeRoot(Leaves(new.entries))[m][0]
    BY <2>3 DEF Root
  <2>5. m <= n /\ \A i \in 1..m : old.entries[i] = new.entries[i]
    <3>1. m <= Len(old.entries) /\ m <= Len(new.entries)
      BY <1>4, <2>2
    <3> DEFINE s == old.entries
               u == new.entries
               k == m
    <3>2. IsSequence(s) /\ IsSequence(u) /\ k \in Nat /\ k <= Len(s) /\ k <= Len(u)
      BY <1>3, <1>4, <3>1
    <3>3. SubtreeRoot(Leaves(s))[k][0] = SubtreeRoot(Leaves(u))[k][0]
      BY <2>4
    <3> HIDE DEF s, u, k
    <3>4. \A i \in 1..k : s[i] = u[i]
      BY <3>2, <3>3, RootsTellEntries
    <3> QED
      BY <3>1, <3>4 DEF s, u, k
  <2> QED
    BY <1>3, <2>5, PrefixTold DEF old, new
<1> QED
  BY <1>5, <1>6

\* An entry that was proved to be included is under the auditor's head.
LEMMA ShownIsIncluded ==
  ASSUME LogInv, NEW a \in Auditors, NEW i \in 0..(Len(log) - 1), CheckIncluded(a, i)
  PROVE  accepted[a] \in DOMAIN heads /\ heads[accepted[a]].entries[i + 1] = log[i + 1]
<1> DEFINE head == heads[accepted[a]]
           n == Len(head.entries)
<1>1. accepted[a] \in DOMAIN heads /\ IsSequence(log)
  BY DEF LogInv, CheckIncluded
<1>2. HeadOfEntries(head)
  BY <1>1 DEF LogInv
<1>3. CanProveInclusion(i, head.sth.log_size) /\ VerifyInclusionProof(InclusionProof(i, head.sth.log_size), head.sth.root_hash)
  BY DEF CheckIncluded
<1> HIDE DEF head
<1>4. IsSequence(head.entries) /\ head.sth.log_size = n /\ head.sth.root_hash = Root(head.entries)
  BY <1>2 DEF HeadOfEntries
<1>5. n \in Nat /\ Len(log) \in Nat
  BY <1>1, <1>4 DEF IsSequence
<1>6. n \in 1..Len(log) /\ n \in 0..Len(log) /\ i \in 0..(n - 1)
  BY <1>3, <1>4, <1>5 DEF CanProveInclusion
<1>7. Root(head.entries) = Root(SubSeq(log, 1, n))
  BY <1>1, <1>3, <1>4, <1>6, InclusionVerifies
<1> DEFINE q == SubSeq(log, 1, n)
<1>8. IsSequence(q) /\ Len(q) = n /\ \A j \in 1..n : q[j] = log[j]
  BY <1>1, <1>6, PrefixIs
<1> HIDE DEF q
<1>9. SubtreeRoot(Leaves(head.entries))[n][0] = SubtreeRoot(Leaves(q))[n][0]
  BY <1>7, <1>8 DEF Root, q
<1>10. \A j \in 1..n : head.entries[j] = q[j]
  <2> DEFINE s == head.entries
             k == n
  <2>1. IsSequence(s) /\ k \in Nat /\ k <= Len(s) /\ k <= Len(q)
    BY <1>4, <1>5, <1>8
  <2>2. SubtreeRoot(Leaves(s))[k][0] = SubtreeRoot(Leaves(q))[k][0]
    BY <1>9
  <2> HIDE DEF s, k
  <2>3. \A j \in 1..k : s[j] = q[j]
    BY <1>8, <2>1, <2>2, RootsTellEntries
  <2> QED
    BY <2>3 DEF s, k
<1>11. i + 1 \in 1..n
  BY <1>5, <1>6
<1> QED
  BY <1>1, <1>8, <1>10, <1>11 DEF head

\* Every step of the log and of its auditors keeps LogInv, and what is trusted grows.
LEMMA LogStep ==
  ASSUME LogInv, [LogNext]_logVars
  PROVE  LogInv' /\ TrustGrows
<1>1. /\ IsSequence(log) /\ IsSequence(heads)
      /\ \A h \in DOMAIN heads : HeadOfEntries(heads[h])
      /\ accepted = [a \in Auditors |-> accepted[a]]
      /\ \A a \in Auditors : accepted[a] # 0 => accepted[a] \in DOMAIN heads
      /\ included = [a \in Auditors |-> included[a]]
      /\ \A a \in Auditors : ShownIsThere(included[a])
  BY DEF LogInv
<1>2. ASSUME NEW s, IsSequence(s) PROVE IsPrefix(s, s)
  BY <1>2, PrefixTold DEF IsSequence
<1>3. ASSUME UNCHANGED accepted PROVE TrustGrows
  BY <1>1, <1>2, <1>3 DEF TrustGrows, HeadOfEntries
<1>4. ASSUME UNCHANGED <<heads, accepted, included>>, IsSequence(log') PROVE LogInv' /\ TrustGrows
  BY <1>1, <1>3, <1>4 DEF LogInv, ShownIsThere, HeadOfEntries
<1>5. CASE UNCHANGED logVars
  BY <1>1, <1>4, <1>5 DEF logVars
<1>6. ASSUME NEW e, AppendEntry(e) PROVE LogInv' /\ TrustGrows
  <2>1. log' = Append(log, e) /\ UNCHANGED <<heads, accepted, included>>
    BY <1>6 DEF AppendEntry
  <2>2. IsSequence(Append(log, e))
    BY <1>1, Appended
  <2> QED
    BY <1>4, <2>1, <2>2
<1>7. CASE IssueSTH
  <2> DEFINE sth == [log_size |-> Len(log), root_hash |-> Root(log), timestamp |-> logTime, signature |-> NoSignature]
             head == [entries |-> log, sth |-> SignSTH(sth)]
  <2>1. heads' = Append(heads, head) /\ UNCHANGED <<log, accepted, included>>
    BY <1>7 DEF IssueSTH
  <2>2. SignSTH(sth).log_size = Len(log) /\ SignSTH(sth).root_hash = Root(log)
    <3> HIDE DEF sth
    <3>1. sth.log_size = Len(log) /\ sth.root_hash = Root(log) /\ DOMAIN sth = {"log_size", "root_hash", "timestamp", "signature"}
      BY DEF sth
    <3> QED
      BY <3>1 DEF SignSTH, SignSignedDoc
  <2>3. HeadOfEntries(head)
    BY <1>1, <2>2 DEF HeadOfEntries
  <2> HIDE DEF head
  <2>4. /\ IsSequence(heads') /\ DOMAIN heads = 1..Len(heads) /\ DOMAIN heads' = 1..(Len(heads) + 1)
        /\ \A h \in 1..Len(heads) : heads'[h] = heads[h]
        /\ heads'[Len(heads) + 1] = head /\ Len(heads) \in Nat
    BY <1>1, <2>1, Appended DEF IsSequence
  <2>5. DOMAIN heads \subseteq DOMAIN heads' /\ \A h \in DOMAIN heads : heads'[h] = heads[h]
    BY <2>4
  <2>6. \A h \in DOMAIN heads' : HeadOfEntries(heads'[h])
    <3>1. \A h \in DOMAIN heads' : h \in DOMAIN heads \/ h = Len(heads) + 1
      BY <2>4
    <3> QED
      BY <1>1, <2>3, <2>4, <2>5, <3>1
  <2>7. ASSUME NEW a \in Auditors PROVE ShownIsThere(included[a])'
    BY <1>1, <2>1, <2>5 DEF ShownIsThere
  <2>8. \A h \in DOMAIN heads' : HeadOfEntries(heads[h])'
    BY <2>6 DEF HeadOfEntries
  <2> QED
    BY <1>1, <1>3, <2>1, <2>4, <2>5, <2>7, <2>8 DEF LogInv
<1>8. CASE RestartLog
  <2>1. log' = <<>> /\ UNCHANGED <<heads, accepted, included>>
    BY <1>8 DEF RestartLog
  <2> QED
    BY <1>4, <2>1, EmptyIsSequence
<1>9. CASE LogTick
  BY <1>1, <1>4, <1>9 DEF LogTick
<1>10. ASSUME NEW a \in Auditors, NEW h \in DOMAIN heads, Audit(a, h) PROVE LogInv' /\ TrustGrows
  <2>1. accepted' = [accepted EXCEPT ![a] = h] /\ UNCHANGED <<log, heads, included>>
    BY <1>10 DEF Audit
  <2>2. accepted'[a] = h /\ \A c \in Auditors : c # a => accepted'[c] = accepted[c]
    BY <1>1, <2>1
  <2>3. accepted' = [c \in Auditors |-> accepted'[c]]
    BY <1>1, <2>1
  <2>4. \A c \in Auditors : accepted'[c] # 0 => accepted'[c] \in DOMAIN heads
    BY <1>1, <2>2
  <2>5. TrustGrows
    <3> SUFFICES ASSUME NEW c \in Auditors, accepted[c] # 0
                 PROVE  IsPrefix(heads[accepted[c]].entries, heads[accepted'[c]].entries)
      BY DEF TrustGrows
    <3>1. CASE c = a
      BY <1>10, <2>2, <3>1, AuditGrows
    <3>2. CASE c # a
      BY <1>1, <1>2, <2>2, <3>2 DEF HeadOfEntries
    <3> QED
      BY <3>1, <3>2
  <2> QED
    BY <1>1, <2>1, <2>3, <2>4, <2>5 DEF LogInv, ShownIsThere, HeadOfEntries
<1>11. ASSUME NEW a \in Auditors, NEW i \in 0..(Len(log) - 1), CheckIncluded(a, i) PROVE LogInv' /\ TrustGrows
  <2> DEFINE shown == <<accepted[a], i, log[i + 1]>>
  <2>1. included' = [included EXCEPT ![a] = shown] /\ UNCHANGED <<log, heads, accepted>>
    BY <1>11 DEF CheckIncluded
  <2>2. ShownIsThere(shown)
    <3>1. accepted[a] \in DOMAIN heads /\ heads[accepted[a]].entries[i + 1] = log[i + 1]
      BY <1>11, ShownIsIncluded
    <3>2. shown[1] = accepted[a] /\ shown[2] = i /\ shown[3] = log[i + 1]
      OBVIOUS
    <3> QED
      BY <3>1, <3>2 DEF ShownIsThere
  <2> HIDE DEF shown
  <2>3. included'[a] = shown /\ \A c \in Auditors : c # a => included'[c] = included[c]
    BY <1>1, <2>1
  <2>4. included' = [c \in Auditors |-> included'[c]]
    BY <1>1, <2>1
  <2>5. \A c \in Auditors : ShownIsThere(included'[c])
    BY <1>1, <2>2, <2>3
  <2>6. \A c \in Auditors : ShownIsThere(included[c])'
    BY <2>1, <2>5 DEF ShownIsThere
  <2> QED
    BY <1>1, <1>3, <2>1, <2>4, <2>6 DEF LogInv, HeadOfEntries
<1> QED
  BY <1>5, <1>6, <1>7, <1>8, <1>9, <1>10, <1>11 DEF LogNext

\* It holds in every state of the log.
LEMMA LogInvariant == LogSpec => []LogInv
<1>1. LogInit => LogInv
  <2> SUFFICES ASSUME LogInit PROVE LogInv
    OBVIOUS
  <2>1. IsSequence(log) /\ IsSequence(heads) /\ \A h \in DOMAIN heads : FALSE
    <3>1. \A h \in DOMAIN <<>> : FALSE
      OBVIOUS
    <3> QED
      BY <3>1, EmptyIsSequence DEF LogInit
  <2> QED
    BY <2>1 DEF LogInit, LogInv, ShownIsThere
<1> QED
  BY <1>1, LogStep, PTL DEF LogSpec

\* Every proof the log gives, of an inclusion at any index and of consistency
\* between any two sizes, verifies against its own roots (prove*, verify*,
\* merkle.ts): the loops of the verifier undo the recursions of the prover.
THEOREM ProofsAlwaysVerify == LogSpec => []ProofsVerify
<1>1. LogInv => ProofsVerify
  <2> SUFFICES ASSUME LogInv, NEW n \in 1..Len(log)
               PROVE  LET root(k) == Root(SubSeq(log, 1, k))
                      IN  /\ \A m \in 1..n : VerifyConsistencyProof(ConsistencyProof(m, n), root(m), root(n))
                          /\ \A i \in 0..(n - 1) : VerifyInclusionProof(InclusionProof(i, n), root(n))
    BY DEF ProofsVerify
  <2>1. IsSequence(log)
    BY DEF LogInv
  <2>2. \A m \in 1..n : VerifyConsistencyProof(ConsistencyProof(m, n), Root(SubSeq(log, 1, m)), Root(SubSeq(log, 1, n)))
    BY <2>1, ConsistencyTells
  <2>3. \A i \in 0..(n - 1) : VerifyInclusionProof(InclusionProof(i, n), Root(SubSeq(log, 1, n)))
    BY <2>1, InclusionVerifies
  <2> QED
    BY <2>2, <2>3
<1> QED
  BY <1>1, LogInvariant, PTL

\* What an auditor trusts only grows, and what it was shown is under the head it
\* was shown for, however the log forgot its entries and was told others, and
\* whatever tree heads it had signed before (verifyConsistencyProof).
THEOREM AuditorsSeeOneLogHolds == LogSpec => AuditorsSeeOneLog
<1>1. LogInv /\ [LogNext]_logVars
        => [\A a \in Auditors :
              /\ accepted[a] # 0 => IsPrefix(heads[accepted[a]].entries, heads[accepted'[a]].entries)
              /\ included'[a] # <<>> =>
                   heads'[included'[a][1]].entries[included'[a][2] + 1] = included'[a][3]]_logVars
  <2>1. LogInv /\ [LogNext]_logVars => LogInv' /\ TrustGrows
    BY LogStep
  <2>2. LogInv' => \A a \in Auditors : included'[a] # <<>> =>
                     heads'[included'[a][1]].entries[included'[a][2] + 1] = included'[a][3]
    BY DEF LogInv, ShownIsThere
  <2> QED
    BY <2>1, <2>2 DEF TrustGrows
<1> QED
  BY <1>1, LogInvariant, PTL DEF LogSpec, AuditorsSeeOneLog
=============================================================================
