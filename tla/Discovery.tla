----------------------------- MODULE Discovery -----------------------------
(***************************************************************************)
(* Finding a domain's keys, resolveServer (discovery/resolver.ts,          *)
(* configuration.ts, domain_keys.ts), and the signed answers to lookups    *)
(* with the cache that keeps them (lookup.ts, cache.ts). The domain        *)
(* changes its key while calls are under way.                              *)
(***************************************************************************)
EXTENDS SignedDoc, Integers, Sequences

CONSTANTS
  DomainKeyIds,        \* sequence of the signing keys the domain goes through
  TTLs,                \* the ttl values an answer may carry
  MaxDiscoveryTime     \* bound: the clock

ASSUME DiscoveryAssumption == TTLs \subseteq Int /\ MaxDiscoveryTime \in Nat

VARIABLES
  signingKey,      \* what is published: [signing: place in DomainKeyIds, key_id: the place it is labelled with]
  call,            \* one resolveServer call: where it is and what it holds
  answers,         \* lookup answers on their way to the resolver
  entry,           \* the cache's entry for the address
  served,          \* history: the ttl and the age of what get() returned last
  clock

discoveryVars == <<signingKey, call, answers, entry, served, clock>>

Idle == [at |-> "idle", since |-> 0, key |-> 0, timer |-> FALSE]
NoEntry == [expiresAt |-> 0, putAt |-> 0, ttl |-> -1]
NothingServed == [ttl |-> 0, age |-> 0]

\* A domain that rotates its key may for a while label the new key with the
\* old key_id.
PublishNextKey(labelled) ==
  /\ signingKey.signing < Len(DomainKeyIds)
  /\ signingKey' = [signing |-> signingKey.signing + 1,
                   key_id |-> IF labelled THEN signingKey.signing + 1 ELSE signingKey.key_id]
  /\ UNCHANGED <<call, answers, entry, served, clock>>

PublishKeyId ==
  /\ signingKey.key_id # signingKey.signing
  /\ signingKey' = [signingKey EXCEPT !.key_id = signingKey.signing]
  /\ UNCHANGED <<call, answers, entry, served, clock>>

\* resolveServer() starts the first of its two fetches.
ResolveServer ==
  /\ call.at \in {"idle", "resolved", "failed"}
  /\ call' = [at |-> "configuration headers", since |-> signingKey.signing, key |-> 0, timer |-> TRUE]
  /\ UNCHANGED <<signingKey, answers, entry, served, clock>>

Waiting == {"configuration headers", "domain_keys headers"}

\* fetchTextBounded(): the timer and the caller's signal are let go of as soon
\* as the headers are in. A bad status or content type throws.
Headers(ok) ==
  /\ call.at \in Waiting
  /\ call' = [call EXCEPT !.timer = FALSE,
                          !.at = CASE ~ok -> "failed"
                                   [] ok /\ @ = "configuration headers" -> "configuration body"
                                   [] OTHER -> "domain_keys body"]
  /\ UNCHANGED <<signingKey, answers, entry, served, clock>>

\* The timer fires, or the caller aborts.
AbortFetch ==
  /\ call.timer
  /\ call' = [call EXCEPT !.at = "failed", !.timer = FALSE]
  /\ UNCHANGED <<signingKey, answers, entry, served, clock>>

\* The body of the configuration: too long, not JSON, without one of the
\* mandatory baselines, or fit to go on to the keys.
ConfigurationBody(parses) ==
  /\ call.at = "configuration body"
  /\ call' = IF parses THEN [call EXCEPT !.at = "domain_keys headers", !.timer = TRUE]
             ELSE [call EXCEPT !.at = "failed"]
  /\ UNCHANGED <<signingKey, answers, entry, served, clock>>

\* verifyDomainKeyFingerprint().
VerifyDomainKeyFingerprint(block) == block.key_id = block.signing

\* fetchDomainKeys() parses, then checks that the label is the key's.
DomainKeysBody(parses) ==
  /\ call.at = "domain_keys body"
  /\ call' = IF parses /\ VerifyDomainKeyFingerprint(signingKey)
             THEN [call EXCEPT !.at = "resolved", !.key = signingKey.key_id]
             ELSE [call EXCEPT !.at = "failed"]
  /\ UNCHANGED <<signingKey, answers, entry, served, clock>>

-----------------------------------------------------------------------------

SignDiscoveryResponse(resp, key) == SignSignedDoc(resp, key, "SEMP-DISCOVERY:")
VerifyDiscoveryResponse(resp, pub) == resp.ttl >= 0 /\ VerifySignedDoc(resp, pub, "SEMP-DISCOVERY:")

\* The domain answers a lookup; the answer may take its time.
AnswerLookup(ttl) ==
  /\ answers = {}
  /\ answers' = {SignDiscoveryResponse([ttl |-> ttl, signature |-> NoSignature],
                                       DomainKeyIds[signingKey.signing])}
  /\ UNCHANGED <<signingKey, call, entry, served, clock>>

\* A mutant: an entry is good for one tick more.
LiveLonger(e) == e.expiresAt > 0 => clock <= e.expiresAt + 1

\* get(): an entry without a time of expiry never expires.
Live(e) == e.expiresAt > 0 => clock <= e.expiresAt

\* The answer is verified under the key that was resolved and put in the cache;
\* a ttl of 0 is stored as no time of expiry.
PutAnswer(resp) ==
  /\ call.at = "resolved"
  /\ answers' = answers \ {resp}
  /\ entry' = IF VerifyDiscoveryResponse(resp, DomainKeyIds[call.key])
              THEN [putAt |-> clock, ttl |-> resp.ttl,
                    expiresAt |-> IF resp.ttl > 0 THEN clock + resp.ttl ELSE 0]
              ELSE entry
  /\ UNCHANGED <<signingKey, call, served, clock>>

GetRoute ==
  /\ entry # NoEntry
  /\ entry' = IF Live(entry) THEN entry ELSE NoEntry
  /\ served' = IF Live(entry) THEN [ttl |-> entry.ttl, age |-> clock - entry.putAt] ELSE NothingServed
  /\ UNCHANGED <<signingKey, call, answers, clock>>

\* A delivery to the cached server failed.
InvalidateRoute ==
  /\ entry # NoEntry
  /\ entry' = NoEntry
  /\ UNCHANGED <<signingKey, call, answers, served, clock>>

DiscoveryTick ==
  /\ clock < MaxDiscoveryTime
  /\ clock' = clock + 1
  /\ UNCHANGED <<signingKey, call, answers, entry, served>>

DiscoveryInit ==
  /\ signingKey = [signing |-> 1, key_id |-> 1]
  /\ call = Idle /\ answers = {} /\ entry = NoEntry /\ served = NothingServed /\ clock = 0

DiscoveryNext ==
  \/ \E b \in BOOLEAN : PublishNextKey(b) \/ Headers(b) \/ ConfigurationBody(b) \/ DomainKeysBody(b)
  \/ PublishKeyId \/ ResolveServer \/ AbortFetch
  \/ \E ttl \in TTLs : AnswerLookup(ttl)
  \/ \E resp \in answers : PutAnswer(resp)
  \/ GetRoute \/ InvalidateRoute \/ DiscoveryTick

DiscoverySpec == DiscoveryInit /\ [][DiscoveryNext]_discoveryVars

-----------------------------------------------------------------------------

\* resolver.ts and cache.ts: a resolved key is one the domain published while
\* the call ran, under its own fingerprint, although the key may change
\* between the two fetches; and the cache hands nothing out after its ttl,
\* except what came with a ttl of 0, which it keeps for ever.
NothingStale ==
  /\ call.at = "resolved" => call.key \in call.since..signingKey.signing
  /\ served.ttl # 0 => served.age <= served.ttl

-----------------------------------------------------------------------------
(* Which of a large domain's servers has an address (discovery/            *)
(* partition.ts). A caller fetches the domain's partition record, and      *)
(* resolves addresses with it while the domain publishes other records and *)
(* other SRV names. A character is its place in the alphabet, 1..26; every *)
(* other first character is 27, firstLowerChar's ~.                        *)

CONSTANTS
  PartitionRecords,    \* the records the domain may publish: [version, strategy, servers]
  PartitionUsers       \* addresses: [char: first character, hash: the SHA-256 prefix]

ASSUME PartitionAssumption ==
  /\ \A record \in PartitionRecords : record.servers \in Nat
  /\ \A user \in PartitionUsers : user.char \in 1..27 /\ user.hash \in Nat

VARIABLES
  partition,       \* the record published, NoPartition before the first; its SRV names are published with it
  fetched,         \* the record the caller holds, or NoPartition
  route            \* the last answer: [user, under: the record, then: what was published, server]

partitionVars == <<partition, fetched, route>>

NoPartition == [version |-> "", strategy |-> "", servers |-> 0]
NoRoute == [user |-> [char |-> 0, hash |-> 0], under |-> NoPartition, then |-> NoPartition, server |-> <<>>]

Letters == 1..26
AtMost(a, b) == IF a < b THEN a ELSE b

\* parsePartitionTXT(): v= and strategy= must be there, servers= need not.
ParsePartitionTXT(txt) == txt.version # "" /\ txt.strategy \in {"alpha", "hash", "lookup"}

\* A mutant: the remainder is not spread.
DefaultAlphaRangesUneven(n) ==
  LET count == AtMost(n, 26)
      width == 26 \div count
  IN  IF n <= 0 THEN <<>>
      ELSE [i \in 1..count |-> <<(i - 1) * width + 1, i * width>>]

\* defaultAlphaRanges(): the first 26 % n ranges are one letter wider.
DefaultAlphaRanges(n) ==
  LET count == AtMost(n, 26)
      width(i) == 26 \div count + (IF i <= 26 % count THEN 1 ELSE 0)
      start[i \in 1..count] == IF i = 1 THEN 1 ELSE start[i - 1] + width(i - 1)
  IN  IF n <= 0 THEN <<>>
      ELSE [i \in 1..count |-> <<start[i], AtMost(start[i] + width(i) - 1, 26)>>]

\* resolveAlpha(): the SRV name of the first range that contains the
\* character, else of the last.
AlphaName(ranges, char) ==
  LET hits == {i \in DOMAIN ranges : char >= ranges[i][1] /\ char <= ranges[i][2]}
  IN  IF hits = {} THEN ranges[Len(ranges)] ELSE ranges[CHOOSE i \in hits : \A j \in hits : i <= j]

\* resolveHash(): the name is the index.
HashName(user, n) == <<user.hash % n>>

\* resolvePartition() up to the SRV query; it throws outside CanResolve. A
\* lookup is handed to the caller's own function.
CanResolve(record) == record.strategy \in {"alpha", "hash"} /\ record.servers > 0
ServiceName(record, user) ==
  IF record.strategy = "alpha" THEN AlphaName(DefaultAlphaRanges(record.servers), user.char)
  ELSE HashName(user, record.servers)

\* The SRV names a domain publishes for its record.
SRVNames(record) ==
  CASE record.strategy = "alpha" -> {DefaultAlphaRanges(record.servers)[i] : i \in DOMAIN DefaultAlphaRanges(record.servers)}
    [] record.strategy = "hash" -> {<<i>> : i \in 0..(record.servers - 1)}
    [] OTHER -> {}

PublishPartition(record) ==
  /\ partition' = record
  /\ UNCHANGED <<fetched, route>>

FetchPartition ==
  /\ ParsePartitionTXT(partition)
  /\ fetched' = partition
  /\ UNCHANGED <<partition, route>>

\* resolveSRV() throws when there are no records under the name.
ResolvePartition(user) ==
  /\ CanResolve(fetched)
  /\ ServiceName(fetched, user) \in SRVNames(partition)
  /\ route' = [user |-> user, under |-> fetched, then |-> partition, server |-> ServiceName(fetched, user)]
  /\ UNCHANGED <<partition, fetched>>

PartitionInit == partition = NoPartition /\ fetched = NoPartition /\ route = NoRoute

PartitionNext ==
  \/ \E record \in PartitionRecords \ {partition} : PublishPartition(record)
  \/ FetchPartition
  \/ \E user \in PartitionUsers : ResolvePartition(user)

PartitionSpec == PartitionInit /\ [][PartitionNext]_partitionVars

-----------------------------------------------------------------------------

\* resolveAlpha: with a record however old, an address that resolves goes to
\* a server whose letters, as published when it resolved, include its first
\* character; other characters go to the server with the last letter. The
\* names of a hash partition do not say how many servers there are, so an old
\* record of that kind sends an address where it need not be: for those only
\* a record that is current is good.
RoutedToTheHolder ==
  route # NoRoute =>
    CASE route.under.strategy = "alpha" ->
           IF route.user.char \in Letters THEN route.user.char \in route.server[1]..route.server[2]
           ELSE route.server[2] = 26
      [] OTHER -> route.under = route.then => route.server = HashName(route.user, route.then.servers)
=============================================================================
