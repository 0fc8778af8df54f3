# semp-ts: a TLA+ model of the SEMP library

semp-ts is a TypeScript implementation of the SEMP mail protocol: handshakes,
sessions, envelopes, delivery between home servers, and the stores around them
(keys, discovery, migration, recovery, reputation, transparency). This directory
models its stateful core, checks the models with TLC on small instances and
proves the main invariants with TLAPS for every instance. Paths below are
relative to the repository's `src/`.

All code runs on one JavaScript event loop. A function runs without interruption
from one `await` to the next, and any other call may run while it waits. So
**an action of a model is the code between two awaits**, and the interleavings
are those of pending calls. Nothing here relies on threads.

## 1. Inventory

| Part | State | Operations | What is hard |
|---|---|---|---|
| delivery scheduler (`delivery/scheduler.ts`, `queue.ts`, `retry.ts`) | a store of records (state, attempts, next attempt, deadline), the tick latch | enqueue, tick, cancel, cancelEnvelope, pruneTerminal | copies read before an await and written after it, rejected writes, restarts, jitter at the deadline |
| staged delivery (`delivery/staged_runner.ts`, `stage_partition.ts`, `disposition.ts`) | held envelopes: remaining stages, votes, timeout | hold, ingestDisposition, tick, reevaluate | votes against timeouts, certificates that change while an envelope is held, callbacks that overlap |
| federation forwarder (`delivery/forwarder.ts`) | session cache, handshakes under way, a lock per session | forward, fetchKeys, close | shared sessions, late failures, shutdown during a handshake |
| home server pipeline (`delivery/pipeline.ts`, `inbox.ts`) | the inbox queues | process, drain | answers of hooks are used after an await; a failure half way through the recipients |
| user policy and block list (`delivery/policy_state.ts`, `user_policy.ts`, `blocklist.ts`) | version, timestamp, entries per kind | apply, matchBlockList | messages of several devices reordered and repeated; all-or-nothing application |
| client-server handshake (`handshake/client_state.ts`, `server_state.ts`) | both state machines | init, onInit, onResponse, onConfirm, onAccepted, onRejected, erase | messages of concurrent handshakes mixed up |
| federation handshake (`handshake/federation.ts`) | both state machines | the same four messages with policies | a verifier awaited between guard and assignment |
| drivers and resumption (`handshake/driver.ts`, `server.ts`, `resume_driver.ts`, `abort.ts`, `session/resume.ts`) | one transport per call | runClient, runServer, resumeClient, resumeServer, runClientResumeOrFull | errors that leave the other side waiting, broken connections |
| session and rekey (`session/session.ts`, `rekey.ts`, `rekey_seal.ts`, `dispatcher.ts`) | keys, session id, open or closed | send, receive, rekeyClient, rekeyServer, close, erase | simultaneous rekeys, application frames in between |
| transports (`transport/memory.ts`, `h2.ts`, `ws.ts`) | queues, waiting calls, closed flags, a decoder's half-read event | dial, send, receive, close, socket events | what arrives around a close, timers that race an open, events cut across chunks |
| receipts, persistent silence (`delivery/receipt*.ts`, `ack.ts`, `persistent_silent.ts`) | stores and counters | record, lookup | counters at their limit |
| first contact, proof of work (`handshake/first_contact.ts`, `handshake/pow.ts`, `reputation/pow.ts`) | the ledger of challenges | issueChallenge, onChallenge, verify, redeem, sweep | replay, expiry while the client works, a ledger that forgets |
| keys and directories (`keys/*`) | devices and revision of a directory, a correspondent's cache, the published keys | addDevice, revokeDevice, verifyAndCache, buildCompromiseRotation | late answers, a signature that fails after a change, a restart |
| discovery (`discovery/*`) | cache with expiry, a partition record | resolveServer, get, put, invalidate, resolvePartition | a key that changes between two fetches, expiry, old records |
| account closure (`closure/*`) | pending requests, finalized accounts | submit, tick, pruneFinalized | a cancel against a tick, a store that fails between two writes |
| migration (`migration/*`) | reservations of local parts, published records | acceptSubmission, reserve, release, prune | two submissions for one local part, a failure after the reservation |
| recovery (`recovery/*`) | the bundles of each user, the shares devices keep | putCurrent, deleteAll, pruneSuperseded, split and combine, sign and verify successor records | two devices that replace the same bundle, the retention at its edge, shares of older bundles |
| transparency (`transparency/*`) | the entries, the heads auditors hold | append, issueSTH, prove, verify | proof walks at odd sizes, a log that forgets |
| reputation (`reputation/*`) | observations | observe, assess | counters and windows |
| large attachments (`largeattachment/*`) | chunks and sizes | upload | partial uploads |
| envelope and seal (`envelope/*`, `seal/wrap.ts`) | a composed envelope on its way out, a pending open | compose, fillPadding, sendTimeDelay, openAndVerify | parts of envelopes mixed under way, a key awaited between opening and verifying, bucket edges |
| brief, crypto, canonical JSON, extensions | none | format, hash, encrypt | byte-level, no interleaving |

Interaction: an MTA takes an envelope from a client session, `enqueue`s it;
`tick` calls a deliver callback, which uses the forwarder; the forwarder opens a
session with the federation handshake over a transport; the receiving server
runs the pipeline, which asks key, session and block-list hooks and writes the
inbox; clients of the recipient get it in stages, and drain the inbox. Sessions
of clients come from the drivers, continue by resumption and change keys by
rekeying, over a WebSocket or an HTTP/2 stream. Underneath all of them lies what
one party believes of another: domain keys found by discovery, device
directories and rotations signed by identity keys, entries shown by a
transparency log, envelopes opened with the one and verified with the other,
and the work a stranger has to do before any of it.

## 2. Modules

| Module | Models | Correspondence |
|---|---|---|
| `Retry` | `retry.ts` | `BaseInterval`, `JitterIntervals` and `NextAttemptTimes` are the functions of the same names; the jitter's random number is a set of outcomes; percentages stand for fractions and every truncation is kept |
| `Scheduler` | `scheduler.ts`, `queue.ts` | `store` is the record map; a call is a record of what its frame holds across an await (its copy of a record, its list of due keys, its `now`). `EnqueueBegin`/`EnqueuePut`, `TickBegin`/`TickExpire`/`TickAttempt`/`TickDelivered`/`TickDeliverThrows`/`TickEnd`, `CancelBegin`/`CancelEnvelopeBegin`/`CancelPut`/`CancelEnd`, `PruneBegin`/`PruneDelete` are the stretches between awaits |
| `DeliveryQueue` | — | the abstract queue: a pair is absent, waiting or finished, and finished is final |
| `StagedRunner` | `stage_partition.ts`, `disposition.ts`, `staged_runner.ts` | `held` is the map, and the holds of an envelope are numbered, so that a callback names the hold it is about; a tick collects its callbacks in one step and makes them one by one, while other ticks, holds, votes and reevaluations run |
| `Forwarder` | `forwarder.ts` | `cache`, `inflight` and a lock per session; a call waits for a handshake, for the lock, or for the peer |
| `Negotiation` | suite choice, confirmation hash, key schedule | hashes and keys are the tuples of their inputs: equal exactly when the inputs are |
| `Handshake`, `Federation` | the state machines | sent messages stay in a set and may be delivered to any instance, any number of times, in any order; a signature or MAC can only be made by the holder of its key |
| `Connect` | drivers, resumption and fallback | two queues per connection with the close semantics of `memory.ts`; what messages prove is left to `Handshake` |
| `Rekey` | session, rekey, dispatcher | two endpoints, two FIFO queues, the frames in flight |
| `WebSocket` | `transport/ws.ts` | the socket and its events are the platform's; one action per handler and per method; `waiters` and `wsBuffer` are the two queues of `WSTransport` |
| `H2Session` | `transport/h2.ts`: `dialH2Session`, the event reader, the SSE codec | the stream is a sequence of tokens cut anywhere into chunks; a receive runs from one `next()` to the following one |
| `Wires` | | `Rekey`, `WebSocket` and `H2Session` side by side: `layer` says which one a behaviour exercises |
| `PolicyState`, `Pipeline` | `policy_state.ts`, `blocklist.ts`; `pipeline.ts`, `inbox.ts` | `process` from hook to hook: `pc` names the awaited hook and `answer` or `blockList` what it resolved to; `failing`, `passing`, `lists` are histories of what was true while the call ran |
| `Closure` | `closure/driver.ts`, `store.ts` | `pending` and `finalized` are the store's maps; a tick holds its list of due records (`ticks`), a cancel its user; `accepted`, `canceled`, `listed`, `completed`, `closedOnce` are histories |
| `Migration` | `migration/orchestrate.ts`, `lockout.ts`, `publication_store.ts`, checks of `sign.ts` | `accepts` says where each `acceptSubmission` waits: for the notice policy, or for the store with its reservation made |
| `BundleStore` | `recovery/bundle_store.ts` | `byUser` is the store, `drafts` what the devices are about to put; the cut to whole seconds of `supersededAt` is kept |
| `ServerClock`, `Account` | | the clock those three read, and their composition: they share nothing else, so each behaviour exercises one (`part`) |
| `SignedDoc` | `keys/signed.ts`, `sign.ts` | a signature is the key, the prefix and the document with its signature blanked |
| `DeviceRecords`, `DeviceDirectory` | `keys/device_records.ts`, `directory_state.ts`, `directory_cache.ts` | the devices and the revision of a `DirectoryState`, the directories it has served, each correspondent's cache; answers reach a cache late, repeated or out of order |
| `RecoveryRecords`, `Rotation` | `recovery/shamir.ts`, `sign.ts`, `bundle.ts`, `manifest_crosscheck.ts`; `keys/compromise.ts`, `key_revocation.ts` | one byte of secret over GF(256) with the tables the code builds; bundles and shares that pile up, devices that are replaced, a recovery that collects shares, the successor record and its three signatures |
| `Transparency` | `transparency/merkle.ts`, `log.ts`, `sign.ts` | hashes are tuples; the log, its signed heads, and the head each auditor trusts |
| `Discovery` | `discovery/resolver.ts`, `configuration.ts`, `domain_keys.ts`, `lookup.ts`, `cache.ts`, `partition.ts` | `resolveServer` from fetch to fetch with its timer; the cache on a clock; the published and the fetched record, and where an address went |
| `Envelopes` | `envelope/compose.ts`, `verify.ts`, `padding.ts`, `buckets.ts`, `sendtime.ts`, `open_any.ts`, `open_verified.ts`, `seal/wrap.ts` | one draft on the desk, the envelopes on the wire, one pending `openAndVerify`; sizes are byte counts, contents are values; relays may exchange parts |
| `Challenges` | `reputation/pow.ts`, `handshake/pow.ts`, `first_contact.ts`, `onChallenge` of `client_state.ts` | the ledger, the solutions clients hold and the short work they may present, what was admitted |
| `Trust` | | directories, rotation, transparency, discovery, partitions, envelopes and challenges side by side: `area` says which one a behaviour exercises |
| `SchedulerProofs`, `DeliveryProofs`, `PipelineProofs`, `AccountProofs` | | theorems about delivery and accounts |
| `HandshakeProofs`, `FederationProofs`, `SessionProofs`, `TrustProofs` | | theorems about handshakes, sessions, and what parties believe of each other |
| `MC*` | | instances for TLC. `MCDelivery` (staged runner and forwarder), `MCHandshakes` (both handshakes) and `MCWires` (drivers and `Wires`) also put parts side by side that share no state |

`Pipeline` composes `PolicyState` with the calls of `process`: the block list a lookup
answers is the `semp.dev/block` bucket of the policy of that moment. `Scheduler`
refines `DeliveryQueue`. `Handshake` and `Federation` use `Negotiation`.

## 3. Runs

| Run | Instance | What it shows |
|---|---|---|
| `scheduler_concurrent` | one record, one enqueuer, canceler, pruner and ticker, one rejected write, time 0..3 | with all calls overlapping, stored records stay inside their retry window, terminal ones are announced, and every queued record leaves the queue |
| `scheduler_exclusive` | two recipients, time 0..4, one restart | calls that do not overlap implement the abstract queue and never report a failure for what was delivered |
| `scheduler_cancel_race` | as the first | **violated**: a terminal record changes again (section 6) |
| `delivery` | staged delivery: one envelope while certificates change, twice or once among all of them; one that is held again; two envelopes under two overlapping ticks; two of which one is held again while a tick still makes its callbacks; two delegated and one full-access device, numbered, unnumbered and revoked certificates, one failing first delivery. Forwarder: three calls, two peers, four sessions, two faults | a suppress vote binds its hold, callbacks come once and in stage order, delegates come first, stages run out; an answer belongs to its call, one live session per peer, every call ends |
| `hold_forever` | staged delivery with one envelope and two changes of certificates | **violated**: an envelope without stages stays held (section 6) |
| `handshakes` | two clients and two servers, or two initiators and two responders of several domains; mixed suites and identities | whoever completes agrees with its peer on session, keys and identity, or domain and policy |
| `wires` | drivers: full, resume and fallback attempts, a suite the client does not implement, two cuts of the network; rekey: four nonces, two application frames sent at any time; WebSocket: three frames, four receives, two sends; HTTP/2: two messages, a keepalive, three receives of which two wait at once, one post | sessions are shared, rejections are seen, drivers end; keys agree unless an application frame took the place of a response; messages come whole and in order, whatever chunks, timers, errors and closes do; a dial that rejects leaves no connection; rekeys and receives return |
| `rekey_displaced` | the rekey of `wires` | **violated**: an application frame in flight parts the keys of the two ends (section 6) |
| `home_server` | eleven envelopes alone, one of which claims a sender of another domain than its postmark's, or two mails of three payloads for one inbox at once; three configurations, seven policy messages, two changes of hooks or policy, inbox depth 2 | checks are applied in order on values that were current during the call, blocks hold, the inbox keeps the newest mail in order, policy messages are applied in order, the last operation on an entry decides |
| `account` | closures: two users, four requests, two overlapping ticks, one cancel, one failing store call; migrations: two submissions at once out of seven records for three addresses, two of which share a local part, one failing publication; bundles: two devices, four ids, a clock with two ticks to the second | an accepted request is kept until it is canceled or its account closed, and does not stay pending; a canceled one is not closed later; a published migration holds its lock; the stored bundles are one chain and stay for the retention |
| `trust` | directory: four devices, one with an incomplete registration and one with an unknown role, two identity keys, four directories, one restart; rotation: two recovery sets of threshold 2, three identity keys, a replaced device, a domain key that changes; log: seven entries, a restart with another third entry, two heads; discovery: one key change, ttl 0 and 1, time 0..2; partition: eleven records on both sides of every bound, ten addresses; envelopes: four drafts (two with one postmark id, one at and one past a bucket's edge, one in another suite), two on the wire, one altered by a relay, one key change; challenges: four first contacts of a new, a hostile and a trusted domain, challenges of either algorithm, solutions with a bit less than asked, two challenges, one restart, time 0..3 | directories do not roll back and list the active devices; a recovery yields the secret of its bundle; log proofs verify and a fork is refused; resolved keys and cached routes are current; an address goes to its server; opened envelopes are the composed ones; what leaves has the size of a bucket, and its delay was to end before it expires; a challenge admits one envelope |
| `cascade_record` | the rotation of `trust` | **violated**: the successor record of a cascade does not verify once the home server has completed it (section 6) |

States and times on two cores: `scheduler_concurrent` 141 791 states, 19 s;
`scheduler_exclusive` 285 964, 14 s; `delivery` 132 119, 131 s; `handshakes`
1 066 912, 166 s; `wires` 270 184, 98 s; `home_server` 414 163, 126 s; `account`
462 785, 117 s; `trust` 673 807, 128 s. The runs that expect a violation find it
within seconds.
Parts that share no state are put side by side in one run; each behaviour
exercises one of them, so the sizes add and do not multiply.

Bounds. The races of this code need two calls, each with a copy read before the
other's write; one record, two or three calls and a clock that crosses each
threshold once (due, deadline, retention, expiry) reach all of them. Handshake
instances have two of each role, so that a message has a wrong addressee. The
forwarder needs three calls: one that fails late on an old session, one that
replaced it, one that uses the new one. The inbox has depth 2 and three payloads,
so that it overflows and still has an order. A log of seven entries has every shape of proof up to depth
three, an odd last leaf included. A recovery needs two bundles, so that a device
keeps a share of the wrong one. One draft just fits a bucket and one is a byte too
long for it. All bounds are constants or guards named in the modules
(`Loads`, `MaxTime`, `MaxPutFailures`, `MaxCrashes`, `MaxFaults`, `MaxCuts`, `MaxNonces`,
`MaxFrames`, `MaxChanges`, `MaxClosureFailures`, `MaxPublishFailures`, `MaxWs*`,
`MaxH2*`, `MaxKeepalives`, `MaxDirectories`, `MaxStarts`, `MaxEnrollments`,
`MaxHeads`, `MaxLogTime`, `MaxDiscoveryTime`, `MaxWire`, `MaxAltered`,
`MaxMailTime`, `MaxChallenges`, `MaxRestarts`, `MaxPoWTime`).

Deadlock is not checked where the bounded system ends in a state without steps
(all calls over, clock at its bound).

Fairness. Weak fairness on the continuation of a pending call: the event loop
resumes a promise once it is settled. In addition
- in a composed run only what belongs to the exercised part is ever enabled or
  asked for, so the fairness of the others says nothing;
- scheduler and staged runner: the operator's timer keeps calling `tick` and the
  clock goes on; `deliver` and the callbacks settle (they may reject);
- forwarder: a peer answers or the connection closes. The code has no receive
  timeout, so a silent peer with an open connection is outside this assumption;
- connect and rekey: the transport delivers what was sent, or closes; the
  dispatcher keeps reading;
- WebSocket: the platform reports the end of a socket that is closing; HTTP/2:
  `next()` settles once the stream has ended or broken. Nothing is assumed of a
  stream that stays open and silent;
- closure: the operator keeps calling `tick` and time passes; the store's promises
  settle, by resolving or rejecting.

## 4. Properties

| Part | Properties |
|---|---|
| scheduler | `RetryWindow` (a queued record is due no sooner than the jitter floor after its last attempt and no later than its deadline, whichever call wrote it last), `TerminalAnnounced`, `NeverDeniesDelivery`, `QueueDrains`, `ImplementsQueue`; violated: `TerminalIsFinal` |
| staged delivery | `SuppressBinds` (except votes a reevaluation drops with their stage), `CallbacksInOrder` (once per stage whatever overlaps, in stage order until ticks overlap, full-access devices last once a certificate numbers its stage), `StagesRunOut` (except entries left without stages); violated: `EveryHoldEnds` |
| forwarder | `ResponseMatches`, `AtMostOneLiveSession`, `CallsEnd` |
| handshakes | `Agreement` of client and server, `PeersAgree` of two servers |
| drivers | `SessionShared`, `RejectionIsSeen`, `DriversSettle` (`Settles`, in the behaviours that exercise the drivers; one exception, a client configured with a suite it does not implement) |
| sessions and transports | `KeysAgree` (unless an application frame was taken for a response), `FramesInOrder`, `DialLeavesNothing`, `CallsReturn`; violated: `KeysAlwaysAgree` |
| home server | `JudgedInOrder`, `BlocksHold` (of the sender the brief claims, by the most specific entry), `MailKept`, `AppliedInOrder`, `LastWord` |
| accounts | `RequestKept`, `CancelHonoured`, `ClosureCompletes`, `PublishedIsLocked`, `BundlesKept` (one chain, kept for the retention) |
| directories | `PublishedIsCurrent`, `NoRollback` |
| recovery | `RecoverySound`; violated: `CompletedRecordsVerify` |
| transparency | `ProofsVerify`, `AuditorsSeeOneLog` |
| discovery | `NothingStale`, `RoutedToTheHolder` |
| envelopes | `OpenedAsComposed`, `LeavesAsPlanned` (the size is a bucket's, the drawn delay ends before the expiry) |
| first contact | `WorkCountsOnce` (one envelope, the one bound, in time, for no less work than asked) |

Each is stated in words above its definition. Operators marked "Mutant:" are
broken variants of the definition that follows them; substituting one makes the
property named with it in `PROJECT.json` fail.

## 5. Proofs

`SchedulerProofs`: for every set of envelopes, recipients and calls, every retry
configuration and any number of write failures and restarts,
- `TypeCorrect`: `Spec => []TypeOK`;
- `RetryWindowHolds`: `Spec => []RetryWindow`;
- `TerminalAnnouncedHolds`: `Spec => []TerminalAnnounced`.

The inductive invariant is `IInv`: `TypeOK`, `EnqueuedAreNew`, `RetryWindow` and
`TerminalAnnounced`, the last two also over the copies that pending calls hold,
because a copy is what the next write stores. `EnqueuedAreNew` says that the
record an enqueue is about to insert is untouched: without it `EnqueuePut` could
store a terminal record that nobody announced. Lemmas about `Retry` bound the
jitter: an interval is at least the floor and the next attempt never passes the
deadline. Assumptions: `RetryConfigAssumption`, `SchedulerAssumption`,
`NoRecordAssumption`, each in the module that declares the constants.

Two more are proved under `ExclusiveCalls` and `MaxPutFailures = 0`, the instance
of the run `scheduler_exclusive`: callers do not overlap their calls and the store
takes what it is given. Restarts stay free. Without the first the promise is
broken (section 6), and a rejected write after a delivery breaks it too:
- `DeliveryNeverDenied`: `Spec => []NeverDeniesDelivery`;
- `QueueImplemented`: `Spec => ImplementsQueue`, the refinement of `DeliveryQueue`:
  initial states map to initial states and every step to a step of the queue or a
  stutter.

The inductive invariant is `AloneInv`: `TypeOK`, `RecordsKeyed` (a record is stored
under its own key), `AnnouncedOnce` (the events and the callback's answer fit the
record's state) and `OneCall`: at most one call is under way, and the copy it holds
from before its await is what the store still has (`Current`). That is the fact
an overlap destroys.

`PipelineProofs`: for every set of policy messages,
- `PolicyApplied`: `PolicySpec => []AppliedInOrder`, from the inductive invariant
  `PolicyInv` (types, `AppliedInOrder`, and `Covered`: the stored version and
  timestamp are those of the last applied message, so that a message that is not
  stale comes after every applied one);
- `PipelinePolicy`: `Spec => PolicySpec`: to the policy, a step of the home
  server is a step or a stutter;
- `AppliedInOrderHolds`: `Spec => []AppliedInOrder`, from the two;
- `JudgedInOrderHolds`: `Spec => []JudgedInOrder`. The inductive invariant
  `JudgeInv` adds to the property (`Judged`) what a call that waits knows (`Asked`):
  the answer it waits for is what the hook said while the call ran, although keys
  and sessions change before the call reads it. The lemma `FirstFailureFound` (a
  least failing check exists) rests on the well-founded order of the naturals;
- `MailKeptHolds`: `Spec => []MailKept`. The inductive invariant `MailInv` adds that
  what a queue holds is the end of what was stored in it (`Waiting`), that what
  was fetched came before (`Taken`), that at most the oldest are gone (`Recent`),
  and that no payload is stored twice (`Distinct`), because a payload is named by
  its call and the number of results before it;
- `MatchFindsMostSpecific`: for every list, sender and time, `matchBlockList`'s one
  pass with its early return answers what `MostSpecific` defines. The loop is a
  fold, whose value after a set of entries is `BestOf` that set (`TurnFinds`): the
  function that has these values satisfies the fold's defining equation, so the
  chosen one does, and a least prefix where it differs leads to a contradiction;
- `BlocksHoldHolds`: `Spec => []BlocksHold`. The inductive invariant `BlockInv` says
  that the user's bucket holds what operations of its kind named, that the list a
  call waits with is one it has seen since it began (the hook's answer may be old
  when it is used), and that what is stored was let through by such a list.
  `BucketKept` is about `Map.set` and `Map.delete`; `FoldExists` and `FoldStays` are
  about folds whose turns stay in a set, one set for each number of turns, and give
  what `applyOp` for every operation and the lookup leave;
- `LastWordHolds`: `Spec => []LastWord`, from `PolicyLastWord` about the policy state
  alone and `PipelinePolicy`. `LastWord` looks only at the last operation on an id,
  so it is not inductive by itself: an operation must be known to leave every other
  id as it was. The inductive invariant `WordInv` says that a bucket has one item
  for an id and `Reflects` the operations spoken of so far. `MapSetIs` and
  `MapDeleteIs` say what `Map.set` and `Map.delete` do to the items,
  `OneMoreReflected` that an operation after all others decides its own id and no
  other, and `MessageReflected` takes that through the loop of a message.
  Assumptions: `PolicyAssumption`, `PipelineAssumption`, of which `BlocksHoldHolds`
  uses that the user with a policy is a local recipient and that an entry is never
  null.

`AccountProofs`: for every set of accounts, requests, records and calls,
- `RequestKeptHolds`: `Spec => []RequestKept`. The inductive invariant is
  `ClosureInv`: types, `RequestKept`, and `FinalizedFirst` (what a tick is about
  to delete belongs to an account it has closed), which is the order of
  `putFinalized` and `deletePending`;
- `PublishedIsLockedHolds`: `Spec => []PublishedIsLocked`. The inductive invariant
  is `MigrationInv`: types, `PublishedIsLocked`, and `ReservedIsLocked` (the same
  for a record that is about to be published). The lemma `HoldsKept` says that
  time, a release and the eviction of an expired entry only weaken what is asked;
- `CancelHonouredHolds`: `Spec => CancelHonoured`, an action property. The inductive
  invariant `CancelInv` says that a canceled request which no tick had listed is
  gone: it is not pending and no tick holds it.
- `BundlesKeptHolds`: `Spec => []BundlesKept`. The inductive invariant `BundleInv`
  adds that an account's list is a chain whose elements were superseded in their
  order, none later than now, and that what the property remembers of a
  supersession is still there or older than the retention. `pruneSuperseded` is a
  recursive function (`Retained`): `KeepsExists` shows that a function with its
  defining equation exists, `RetainedIs` that it keeps what passes the test, in
  order, and `ChainPruned` that this cuts a chain at its old end only.
  Assumptions: `ClosureAssumption`, `MigrationAssumption`,
  `BundleAssumption`, of which the one that matters says that different records have different
  ids.

`DeliveryProofs`, of the forwarder: for every set of calls and peers, any number of
sessions and faults,
- `EveryResponseMatches`: `ForwarderSpec => []ResponseMatches`. The wire has no request
  ids, so that the answer is the right one rests on the lock. The inductive
  invariant is `RoundTrip`: nothing is under way on a session nobody has locked
  (`UnlockedIsQuiet`), one call at a time waits on a session (`LockIsExclusive`),
  and what it finds there is its own request or response, or nothing that will be
  read (`OwnMessage`). Without the first a failed call could leave its answer to
  the next;
- `OneLiveSession`: `ForwarderSpec => []AtMostOneLiveSession`. The inductive invariant is
  `Ownership`: a session is cached or being opened for one peer, session numbers
  are used once, and an open transport is held by a peer or waits in `close`.
  Assumption: `ForwarderAssumption`.

`DeliveryProofs`, of staged delivery: for every set of envelopes, devices,
certificates and ticks, and any number of holds of an envelope, failed holds,
reevaluations and changes,
- `SuppressBindsHolds`: `StagedSpec => []SuppressBinds`. A veto is remembered with
  its hold for good; `dropped` are those whose votes the code itself lost, because
  `reevaluate` found no stage of their number. The inductive invariant `StagedInv`
  speaks of the callbacks made and of those a tick still has to make alike
  (`Known`): none of the hold of an envelope goes beyond its current stage, and a
  veto that was not dropped is a vote that is still there at that stage
  (`AtStage`), and no callback of a veto's hold goes beyond it (`Bound`);
- `CallbacksInOrderHolds`: `StagedSpec => []CallbacksInOrder`, for any number of
  ticks and any certificates. That a stage comes once and a hold ends once holds
  of overlapping ticks, too, because a tick advances its entries before it
  awaits the first callback; the order holds until two ticks have overlapped, and after that it
  does not (section 6). `OrderInv` adds that a callback to come is not one that was
  made, and comes after those of its hold that were (`InOrder`), and the lemma
  `DelegatesFirst` is about `partitionStages` with a numbered certificate.
  Assumptions: `StagePartitionAssumption`, `StagedRunnerAssumption`. The lemmas
  `LeastNumber` and `GreatestNumber` say that a lowest stage, a highest stage number
  and a first callback exist.

`HandshakeProofs` and `FederationProofs`: for every set of instances and
configurations, and a network that repeats, reorders and misdelivers,
- `HandshakeAgreement`: `Spec => []Agreement`. Every message sent so far still
  says what its sender's state says (`MessageForms`), a server answers one init
  (`ServerAnswersOnce`), a client goes on with one response (`ClientChoosesOnce`);
  so the confirm a server accepts is that of the client it answered
  (`CompletedTogether`);
- `FederationAgreement`: `FederationSpec => []PeersAgree`. The same, but the responder awaits a
  verifier between guard and assignment, so several `onInit` calls of one
  responder overlap and the last one wins. `CallsApart` and `OneResponsePerCall`
  keep their session ids apart, and `ResponderKeeps` says that what it keeps is one
  of the responses it sent.
  Assumptions: `HandshakeAssumption`, `FederationAssumption`. A hash, key,
  signature or MAC is the tuple of what it is computed from, so two are equal
  exactly when their inputs are, and nobody else can make one: the theorems are
  about the protocol and not about its cryptography.

`SessionProofs`: for any number of rekeys, frames and cuts of a line,
- `RekeyKeysAgree`: `Spec => []KeysAgree`, where a call that read an application
  frame for its response is the only exception (`displaced`): after it the property
  fails (section 6). The inductive invariant `OpenInv` is the list of stages an open
  session can be in: no rekey; one end asked; both asked and their inits cross; one
  of them gave up and the other is about to, or asks again behind its first init;
  the answer is on its way; one of the two ends has applied the new keys. It
  speaks of the rekey frames alone: `Marked` are the sequences of them that the
  queues contain, with any application frames `Among` them. Steps with application
  frames (`Aside`) leave the stage as it is, and the lemmas `From...` follow each
  stage through the others (`Forward`);
- `DialLeavesNothingOpen`: `WebSocketSpec => []DialLeavesNothing`;
- `FramesInOrderHolds`: `WiresSpec => []FramesInOrder` where `LinesPerMessage = 1`,
  which is what `JSON.stringify` gives. Of a longer message, `flush` may return the
  lines that arrived before the stream broke as if they were all.
  The inductive invariant of the WebSocket, `WsInv`, says that the first n calls
  have the first n frames that arrived and the buffer has the rest, or that the
  buffer is empty and the other calls wait, each with a waiter of its own in the
  order of the calls, or were ended alike.
  That of the HTTP/2 session, `H2Inv`, has a witness that is no variable of the model: the
  sequence w of all places of the stream, each the token there and how far a reader
  past it is: in which message, and how deep in its line. Its neighbours are what
  the server may write after one another (`Follows`), wherever a chunk ends. The
  decoder is at a place f that ends a line; its buffer and the stream are the tokens
  behind it (`Window`), and its data lines and the messages returned are what that
  place says (`Kept`). `NextLine` says which lines can begin at a place,
  `OneLineReads` takes the decoder's turn from one place to the next that ends a
  line, `ArrivedCounts` relates the count of a chunk to the places, and
  `ReadOnKeeps` takes a whole call;
- `SessionIsShared`: `ConnectSpec => []SessionShared`, and `RejectionSeen`:
  `ConnectSpec => []RejectionIsSeen`. The inductive invariant `ConnectInv` lists, for
  the resume and for the full handshake, the stages a connection can be in: what
  its server run has done, where the client is, and which message is on the line.
  A rejection is on the line of a client that still reads (`Tells`), or was read, or
  the line is cut. Assumption: `ConnectAssumption`.

`TrustProofs`, from the components' own specifications:
- `WorkAdmitsOnce`: `ChallengeSpec => []WorkCountsOnce`. The inductive invariant
  `WorkInv` adds that the binding of a challenge is the hash of the envelope it was
  issued for, and that the ledger has an admitted challenge as redeemed or not at
  all: a restart empties the ledger, and what it forgot cannot be redeemed;
- `ServedIsCurrent`: `DirectorySpec => []PublishedIsCurrent`, and `NeverRolledBack`:
  `DirectorySpec => NoRollback`, an action property. The inductive invariant
  `DirInv` adds that directories were issued in the order of start and revision,
  and that what a correspondent remembers is the revision it accepted last;
- `ProofsAlwaysVerify`: `LogSpec => []ProofsVerify`, and `AuditorsSeeOneLogHolds`:
  `LogSpec => AuditorsSeeOneLog`, an action property, for trees of any size and
  entries of any kind. The inductive invariant `LogInv` is simple (a head is of
  entries, with their number and root; what an auditor was shown is under its
  head); the work is in the operators:
  - `subtreeRoot`, `auditPath`, `subproof` and the loops of the verifiers are
    recursive functions. `RootExists`, `PathExists`, `ProofExists` and `WalkExists`
    show, by counting up (`CountingUp`), that functions with their defining equations
    exist; `RootIs`, `PathIs`, `ProofIs` and `WalkIs` are those equations;
  - `Powers` is the least set with 1 and doubling, `PowersInduct` its induction, and
    a slice of the recursion is `Placed`: it begins at a multiple of a power of two
    and is that long or ends with the leaves;
  - `At` says where the two positions of the verifier stand when it holds the root of
    a slice; `LeftTurn` and `RightTurn` say that one turn of the loop, with the
    inner `while`, takes them from a half to the whole;
  - `InclusionClimbs` and `ConsistencyClimbs` go up through the slice sizes: the walk
    that is at a half of a slice with its root is at the slice with its root. For
    consistency the first root may be of any tree with as many leaves
    (`RootsTell`: with ideal hashes equal roots have equal leaves), so that the
    verifier refuses a head that was signed before a restart and does not agree.
  The numbers are unbounded: the code's 32-bit shifts agree with them below 2^31
  leaves;
- `NothingFoundIsStale`: `DiscoverySpec => []NothingStale`; `KeyInv` adds where the
  expiry of a cached entry comes from;
- `OpensWhatWasComposed`: `EnvelopeSpec => []OpenedAsComposed`. The inductive
  invariant `MailInv` says of every envelope on a desk or on the wire that each
  half was sealed by one composition and that its signature, if any, covers one
  composition (`Sealed`), also after a relay has mixed two;
- `LeavesAsPlannedHolds`: `EnvelopeSpec => []LeavesAsPlanned`. The inductive invariant `PlanInv`
  says of the envelope still on the desk, too, that its lengths are its draft's, that
  once padded its length on the wire is a planned bucket, and that its delay ends
  before it expires. The timer may fire at any time after that, so that nothing
  is claimed of the moment it leaves. `PickIsPlanned` is about the choice of a bucket, also where the ceiling
  is no power of two. Buckets up to a gigabyte are in the model (`LargestBucket`), and
  `PaddingAssumption` says that the ceiling is no larger;
- `RoutedToTheHolderHolds`: `PartitionSpec => []RoutedToTheHolder`. The lemma
  `RangesAre` gives the recursive function of `defaultAlphaRanges` a closed form
  (by the least range where they would differ), `RangesAdjoin` says that the
  ranges leave no letter out, and `AlphaNameContains` that `resolveAlpha` finds the
  one of the letter.
  Assumptions: `ChallengeAssumption`, `DiscoveryAssumption`, `PartitionAssumption`,
  `EnvelopeAssumption`, `PaddingAssumption`,
  and `BindingHash` keeps first contacts apart (lemma `BindingsDiffer`).

`Wires` and `Trust` compose components that share no variable: a step of the
composition is a step of one component and leaves the others alone, which its
`Next` says literally.

Only model-checked:
- what needs fairness or `ENABLED`, which is out of the prover's reach: `QueueDrains`,
  `StagesRunOut`, `CallsEnd`, `DriversSettle`, `CallsReturn`, `ClosureCompletes`;
- `RecoverySound`: interpolation over GF(256) and the tables of powers are recursion
  over data;
- the scheduler's `NeverDeniesDelivery` and `ImplementsQueue` where calls overlap do
  not hold, which is what `scheduler_cancel_race` shows.

## 6. Where the code and its comments part

Four have a run that shows them:
- `scheduler_cancel_race`: `scheduler.ts:224`: `cancel` and `tick` write back copies
  read before an await, so a canceled record can become queued or delivered again;
  `queue.ts:55`: "MUST NOT override a prior terminal state".
- `hold_forever`: `staged_runner.ts:237` skips an entry without stages for ever, and
  `reevaluate` makes such entries (`:348`: "let the next tick detect completion").
  `StagesRunOut` excludes them.
- `rekey_displaced`: `rekey.ts:131` takes any frame for the response: an application
  frame in flight makes the initiator throw while the responder applies the new
  keys (`:16`: "swap in the new keys and new session_id atomically"). `KeysAgree`
  excludes a session in which that has happened.
- `cascade_record`: `keys/compromise.ts:185` leaves the domain's `key_id` empty (`:184`:
  "left empty for the home server to fill in"), but the two signatures of the device
  already cover the field, so that filling it in undoes them. `RecoverySound` speaks
  of the records that are signed with the field filled in.

Seen while modelling, and left out of the properties or excluded by an instance:
- `scheduler.ts:190` inserts after an await although `:153` promises to throw for
  an existing pair; two overlapping enqueues both insert.
- `scheduler.ts:284`: `cancelEnvelope` reads a horizon of 0 as 0, not as the
  default, and misses records that wait (`:272`: "every still-non-terminal record").
- `scheduler.ts:394` passes `reasonCode` where `submission.ts` reads `reason_code`.
- `staged_runner.ts:284`: two ticks overlap in their callbacks (`:17`: "each call
  is run-to-completion atomic"), and a later stage may be delivered while an earlier
  one is still to be; `CallbacksInOrder` claims no order from then on.
- `staged_runner.ts:160`, `:343`: the votes of a hold go with it when its first delivery
  fails, and a reevaluation drops those of a stage number that is no more. A
  suppress vote among them binds nothing (`disposition.ts:73`: "If any disposition is
  `suppress`, return `suppress`"); `SuppressBinds` names them.
- `staged_runner.ts:332`: `reevaluate` drops stages below the current number, also
  a full-access stage that renumbering put there before it was delivered (`:314`:
  "Stages strictly below the current stage have already been processed").
- `stage_partition.ts:143`: without any numbered certificate the full-access stage
  is 1, the stage of certificates without number (`:135`), so that all devices are
  handed the envelope at once; `CallbacksInOrder` has delegates first only where
  some certificate has a number.
- `forwarder.ts:243` never looks at the session's TTL (`:7`); `:191` can drop a
  newer session than the one that failed (`:150`); `:316` caches a session after
  `close` (`:222`); `:217` drops it on protocol errors too (`:206`).
- `server_state.ts:206`: a key of another suite than the negotiated one throws
  without a rejection (`:156`).
- `federation.ts:1070`: two overlapping `onInit` both pass the guard of `:914`; a
  refused policy leaves the initiator without an answer.
- `driver.ts:180`: an unsupported suite is thrown with the transport open (`:168`),
  and the server waits for ever: the exception of `DriversSettle`.
- `abort.ts:74` does not count `configuration_stale`, which `resume_driver.ts:57`
  lists as a reason to fall back.
- `forwarder.ts:355` has no receive timeout: a silent peer holds the wire lock.
  `inbox.ts:62` empties the queue before the fetch response has arrived: a lost
  response loses the mail. No property is about these two.
- `rekey.ts:216` throws without sending the `RekeyRejected` of `:19`.
- `pipeline.ts:422`, `:426` match the domain of `brief.from`, which the sender claims;
  `blocklist.ts:60` says "Verified sender domain from `postmark.from_domain`". A block
  of the verified domain lets such mail in, and `BlocksHold` speaks of the claimed
  sender. `deliverOne` never fills `server` or `isGroup`, so entries of these kinds
  never apply there.
- `policy_state.ts` applies a message of the same version with a later timestamp,
  and advances the version also when an `add` without an id was skipped.
- `closure/driver.ts:113`: a cancel that is accepted after a tick has listed the
  request does not stop the closure; `CancelHonoured` excludes that case.
  `submit` accepts a request for an account that is already closed.
- `migration/orchestrate.ts:262`: when signing or `putRecord` fails the reservation
  stays, and a retry of the same record is refused by `lockout.ts:66`, which also
  refuses when the old reservation has expired and nothing has evicted it. The
  registry's key is the local part without its domain, so two hosted domains
  share their reservations.
- `recovery/bundle_store.ts:101` cuts the fraction of a second off `supersededAt`
  and `:149` compares it with a cutoff that has one: a bundle may go up to a second
  before the floor of `:7`; `BundlesKept` allows for it.
- `closure/driver.ts:145` offers an asynchronous recipient policy, the pipeline's
  hook is synchronous.

- `transport/h2.ts`: `close` does not wake a receive that waits for a chunk; of two
  waiting receives the second is not woken while a decoded event is buffered; an
  event of several data lines that the end of the stream cuts is flushed without
  its last lines. The body of a response is read without the timer that guards
  its headers (also in `discovery/resolver.ts` and `reputation/gossip_fetch.ts`).
- `keys/directory_state.ts:93` takes an entry with a role that the emit refuses.
  `:166`: when signing fails the entry stays among the
  devices, although the revision is rolled back, and every later emit fails, a
  revocation's too, until that entry is revoked. `:152`: a restart begins at
  revision 1; correspondents keep the directory from before until the counter has
  passed it.
- `verifyCompromiseRotation` does not compare the key ids of the revocation with
  those of the successor.
- `recovery/sign.ts`: a manifest may have threshold 1, `splitSecret` asks for 2.
- `discovery/cache.ts:46`: an answer with ttl 0 is kept for ever. `resolver.ts` does
  not compare the configuration's domain with the one asked for.
- `discovery/partition.ts:51` and the title of its test give the ranges a-f, g-m, n-s
  and t-z for four servers, the code and what the test expects are a-g, h-n, o-t and
  u-z. Publisher and resolver share the code, and in the model the definition.
- `discovery/partition.ts`: the names of a hash partition do not contain the number
  of servers, so an old record can send an address to a wrong server that exists.
- `reputation/pow.ts:15` issues "sha256" challenges, `client_state.ts:283` refuses all
  but "argon2id-pow", so a client's `onChallenge` solves none of the ledger's; and it
  issues up to 256 bits where `handshake/pow.ts:20` caps what is solved at 28. The
  model has both algorithms, and solvers that do not go through `onChallenge`.
- `envelope/padding.ts:56` calls padding safe after compose; the signature covers
  the padding, so an envelope padded after it was sealed no longer verifies. A
  configured 0 is kept by `??` where the comment says that zero means the default.
- `envelope/buckets.ts`: with a ceiling below 4096 the bucket is 4096 all the same.
- `envelope/open_verified.ts:66` reports the candidate that opened the brief, also
  when another one opened the enclosure.
- `envelope/sendtime.ts:102`: nothing looks at the expiry again after the timer, which
  may fire late (`:9`: the delay "cannot push past" it). `LeavesAsPlanned` speaks of the
  delay that was drawn.
- `envelope/sendtime.ts`: a time-sensitive envelope, and one without a ceiling, is
  not checked for its expiry.

## 7. Not modelled

Cryptography, canonical JSON, message builders and parsers have no state: the
models use what they guarantee. DNS and TLS are I/O, and so are the fetches of
whois and gossip. The syntax of addresses, TXT records, URLs and onion names is
left out. The encryption of a recovery bundle (Argon2 and AEAD) is out of reach;
`Rotation` uses only that its key is a function of the secret. What else is left
is in the plan.

## 8. Plan

Done: scheduler with its abstract queue and proofs; staged runner; forwarder;
handshakes; drivers; rekey; home server with policy proofs; closure, migration
and bundle stores with proofs; WebSocket and HTTP/2 transports; directories,
rotation and recovery; transparency log; discovery and partitions; envelopes;
proof-of-work challenges.

Next, most important first:
1. receipts and persistent silence;
2. resume and `resolveCollision` of the federation handshake;
3. device certificates: their scopes, and the directory that refers to them;
4. the rest of migration: building a submission, the notices, the policy of third
   parties, and an abstract specification of who owns an address when;
5. the observation store and eligibility of reputation; large attachments.

Theorems worth proving next: `RecoverySound`, which needs that GF(256) with the tables
the code builds is a field and that interpolation undoes the polynomial.
