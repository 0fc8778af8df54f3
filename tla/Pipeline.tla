------------------------------ MODULE Pipeline ------------------------------
(***************************************************************************)
(* The receive side of a home server: process of                           *)
(* src/src/delivery/pipeline.ts with matchBlockList, the Inbox it writes   *)
(* (src/src/delivery/inbox.ts) and the policy its block list comes from.   *)
(*                                                                         *)
(* A process call runs from one awaited hook to the next in one action.    *)
(* A hook's answer is the one of the moment of the call (as in             *)
(* StaticBlockListLookup) and is used when the call goes on; what the      *)
(* hooks answer may change in between. Hooks are the operator's: the       *)
(* signing keys of domains, the retired sessions, the current K_env_mac,   *)
(* the block list of the one user with a policy (the "semp.dev/block"      *)
(* entries of PolicyState). A hook that is not configured gives the answer *)
(* the code takes in its place: no key, not retired, no K_env_mac, no list.*)
(* Signatures and MACs verify under the key they were made with.           *)
(***************************************************************************)
EXTENDS PolicyState, FiniteSets

CONSTANTS
  Calls,             \* process calls
  Envelopes,         \* envelopes that arrive
  NoEnvelope,        \* the envelope of a call that is not made
  Arrivals,          \* the envelopes of the calls
  Domains, DomainKeys, NoKey, MacKeys, InitialKey, InitialMac,
  Skips,             \* configurations: the steps of 1..4 that skip* options turn off
  RefusedDomains,    \* step 5: domains the domain policy does not accept
  LocalRecipients,
  Gate,              \* step 8a: the acknowledgment of a local recipient's gate
  ClockSkew, MaxDepth,
  MaxTime, MaxChanges    \* bounds: the clock, changes of keys, sessions and policy

BlockKind == "semp.dev/block"

ASSUME PipelineAssumption ==
  /\ Skips \subseteq SUBSET (1..4) /\ BlockKind \in ListKinds
  /\ InitialKey \in [Domains -> DomainKeys \cup {NoKey}] /\ InitialMac \in MacKeys
  /\ Gate \in [LocalRecipients -> {"delivered", "rejected", "silent"}]
  /\ ClockSkew \in Nat /\ MaxDepth \in Nat \ {0} /\ MaxTime \in Nat /\ MaxChanges \in Nat
  /\ Arrivals \subseteq [Calls -> Envelopes \cup {NoEnvelope}]
  /\ UserId \in LocalRecipients
  /\ \A m \in PolicyMessages : \A i \in DOMAIN m.operations :
       LET op == m.operations[i] IN
       op.kind = BlockKind /\ op.entry # NoEntry => op.entry # NoMatch
  /\ \A e \in Envelopes : e.domain \in Domains /\ e.key \in DomainKeys /\ e.mac \in MacKeys

VARIABLES
  now, domainKey, retired, envMac,    \* what the hooks see
  changes,     \* changes of hooks and policy so far
  skip,        \* the steps that are turned off
  pc,          \* "idle", "key", "session", "deliver", "lookup", "done", "rejected", "threw"
  env,         \* per call: its envelope
  answer,      \* per call: what the awaited key or session hook answered, or "none"
  blockList,   \* per call: the block list the awaited lookup answered, or <<>>
  verdict,     \* per call: the check that rejected the envelope, or "none"
  results,     \* per call: the per-recipient statuses so far
  inbox,       \* local recipient -> waiting payloads, as <<call, slot>>
  stored,      \* history: everything ever stored, with its time
  fetched,     \* history: what drain returned
  failing,     \* history: checks that failed in some state of the call
  passing,     \* history: checks that passed in some state of the call
  lists        \* history: block lists that were current during the call

hookVars == <<now, domainKey, retired, envMac, skip>>
mailVars == <<inbox, stored, fetched>>
seenVars == <<failing, passing, lists>>
vars == <<policyVars, hookVars, changes, pc, env, answer, blockList, verdict, results, mailVars, seenVars>>

-----------------------------------------------------------------------------
(* The checks of steps 1 to 7, in their order *)

Checks == <<"seal_invalid", "envelope_expired", "no_session", "handshake_invalid",
            "session_mac_invalid", "domain_policy", "brief_seal_invalid", "brief_invalid">>

\* The check fails for envelope e now.
Fails(check, e) ==
  CASE check = "seal_invalid" -> 1 \notin skip /\ domainKey[e.domain] # e.key
    [] check = "envelope_expired" -> 2 \notin skip /\ e.expires # 0 /\ now - e.expires > ClockSkew
    [] check = "no_session" -> 3 \notin skip /\ e.session = ""
    [] check = "handshake_invalid" -> 3 \notin skip /\ e.session \in retired
    [] check = "session_mac_invalid" -> 4 \notin skip /\ envMac # e.mac
    [] check = "domain_policy" -> e.domain \in RefusedDomains
    [] check = "brief_seal_invalid" -> e.brief = "sealed"
    [] check = "brief_invalid" -> e.brief = "no_to"

\* The current block list of a recipient; null is the empty list.
BlockListOf(r) ==
  IF r # UserId THEN <<>>
  ELSE FoldLeft(LAMBDA list, x : IF x.entry = NoEntry THEN list ELSE Append(list, x.entry),
                <<>>, listEntries[BlockKind])

\* deliverOne's sender: the address in the brief and its domain, which need not
\* be the domain of the postmark that was verified; that one is used for a
\* brief without an address. No server and no group is ever given.
Sender(e) ==
  IF e.from # NoMatch THEN [address |-> e.from, domain |-> e.fromDomain, server |-> "", isGroup |-> FALSE]
  ELSE [address |-> "", domain |-> e.domain, server |-> "", isGroup |-> FALSE]

Ended(p) == p \in {"done", "rejected", "threw"}

\* What a call has seen from its first state to its last.
Observe ==
  LET during(c) == ~Ended(pc[c]) /\ pc'[c] # "idle" IN
  /\ failing' = [c \in Calls |-> failing[c] \cup
       (IF during(c) THEN {k \in Range(Checks) : Fails(k, env[c])'} ELSE {})]
  /\ passing' = [c \in Calls |-> passing[c] \cup
       (IF during(c) THEN {k \in Range(Checks) : ~Fails(k, env[c])'} ELSE {})]
  /\ lists' = [c \in Calls |-> lists[c] \cup
       (IF during(c) THEN {BlockListOf(UserId)'} ELSE {})]

-----------------------------------------------------------------------------

Init ==
  /\ PolicyInit
  /\ now = 0 /\ retired = {} /\ changes = 0 /\ skip \in Skips
  /\ domainKey = InitialKey
  /\ envMac = InitialMac
  /\ pc = [c \in Calls |-> "idle"]
  /\ env \in Arrivals
  /\ answer = [c \in Calls |-> "none"]
  /\ blockList = [c \in Calls |-> <<>>]
  /\ verdict = [c \in Calls |-> "none"]
  /\ results = [c \in Calls |-> <<>>]
  /\ inbox = [r \in LocalRecipients |-> <<>>]
  /\ stored = [r \in LocalRecipients |-> <<>>]
  /\ fetched = [r \in LocalRecipients |-> <<>>]
  /\ failing = [c \in Calls |-> {}] /\ passing = [c \in Calls |-> {}]
  /\ lists = [c \in Calls |-> {}]

\* The first of some checks that fails decides; with none the call goes on.
FirstFailure(checks, e) ==
  LET i == SelectInSeq(checks, LAMBDA k : Fails(k, e)) IN IF i = 0 THEN "none" ELSE checks[i]

Reject(c, check) ==
  /\ verdict' = [verdict EXCEPT ![c] = check]
  /\ pc' = [pc EXCEPT ![c] = "rejected"]
  /\ answer' = [answer EXCEPT ![c] = "none"]

\* Mutant: the policy and the brief are looked at, the session MAC is not.
AfterSessionNoMac(c) ==
  LET e == env[c]
      bad == FirstFailure(<<"domain_policy", "brief_seal_invalid", "brief_invalid">>, e)
  IN \/ bad # "none" /\ Reject(c, bad)
     \/ /\ bad = "none"
        /\ pc' = [pc EXCEPT ![c] = IF e.to = <<>> THEN "done" ELSE "deliver"]
        /\ answer' = [answer EXCEPT ![c] = "none"]
        /\ UNCHANGED verdict

\* Steps 4 to 7, all synchronous.
AfterSession(c) ==
  LET e == env[c]
      bad == FirstFailure(<<"session_mac_invalid", "domain_policy", "brief_seal_invalid",
                            "brief_invalid">>, e)
  IN \/ bad # "none" /\ Reject(c, bad)
     \/ /\ bad = "none"
        /\ pc' = [pc EXCEPT ![c] = IF e.to = <<>> THEN "done" ELSE "deliver"]
        /\ answer' = [answer EXCEPT ![c] = "none"]
        /\ UNCHANGED verdict

\* Steps 2 and 3 up to the awaited retired-session lookup.
AfterSignature(c) ==
  LET e == env[c]
      bad == FirstFailure(<<"envelope_expired", "no_session">>, e)
  IN \/ bad # "none" /\ Reject(c, bad)
     \/ bad = "none" /\ 3 \in skip /\ AfterSession(c)
     \/ /\ bad = "none" /\ 3 \notin skip
        /\ answer' = [answer EXCEPT ![c] = IF e.session \in retired THEN "retired" ELSE "active"]
        /\ pc' = [pc EXCEPT ![c] = "session"]
        /\ UNCHANGED verdict

-----------------------------------------------------------------------------
(* process *)

Process(c) ==
  /\ pc[c] = "idle" /\ env[c] # NoEnvelope
  /\ \/ /\ 1 \in skip
        /\ AfterSignature(c)
     \/ /\ 1 \notin skip
        /\ answer' = [answer EXCEPT ![c] = domainKey[env[c].domain]]
        /\ pc' = [pc EXCEPT ![c] = "key"]
        /\ UNCHANGED verdict
  /\ UNCHANGED <<blockList, results, mailVars>>

\* verifySignature goes on with the key it was given.
KeyResolved(c) ==
  /\ pc[c] = "key"
  /\ \/ answer[c] # env[c].key /\ Reject(c, "seal_invalid")
     \/ answer[c] = env[c].key /\ AfterSignature(c)
  /\ UNCHANGED <<blockList, results, mailVars>>

SessionResolved(c) ==
  /\ pc[c] = "session"
  /\ \/ answer[c] = "retired" /\ Reject(c, "handshake_invalid")
     \/ answer[c] = "active" /\ AfterSession(c)
  /\ UNCHANGED <<blockList, results, mailVars>>

\* "Lookup failures fail open": as if the session was not retired.
SessionLookupFails(c) ==
  /\ pc[c] = "session"
  /\ AfterSession(c)
  /\ UNCHANGED <<blockList, results, mailVars>>

\* The recipient the loop is at, and the end of one turn of the loop.
Recipient(c) == env[c].to[Len(results[c]) + 1]

Push(c, status) ==
  /\ results' = [results EXCEPT ![c] = Append(@, status)]
  /\ pc' = [pc EXCEPT ![c] = IF Len(results[c]) + 1 = Len(env[c].to) THEN "done" ELSE "deliver"]

\* deliverOne up to the awaited block-list lookup.
DeliverOne(c) ==
  LET r == Recipient(c) IN
  /\ pc[c] = "deliver"
  /\ \/ /\ r \notin LocalRecipients
        /\ Push(c, "rejected")
        /\ UNCHANGED blockList
     \/ /\ r \in LocalRecipients /\ Gate[r] # "delivered"
        /\ Push(c, Gate[r])
        /\ UNCHANGED blockList
     \/ /\ r \in LocalRecipients /\ Gate[r] = "delivered"
        /\ blockList' = [blockList EXCEPT ![c] = BlockListOf(r)]
        /\ pc' = [pc EXCEPT ![c] = "lookup"]
        /\ UNCHANGED results
  /\ UNCHANGED <<answer, verdict, mailVars>>

\* Mutant: a full queue keeps its oldest payload and loses the new one.
StoreDropsNewest(r, item) ==
  /\ inbox' = [inbox EXCEPT ![r] = IF Len(@) >= MaxDepth THEN @ ELSE Append(@, item)]
  /\ stored' = [stored EXCEPT ![r] = Append(@, [item |-> item, at |-> now])]
  /\ UNCHANGED fetched

\* Inbox.store: a full queue loses its oldest payload.
Store(r, item) ==
  /\ inbox' = [inbox EXCEPT ![r] =
       Append(IF Len(@) >= MaxDepth THEN Tail(@) ELSE @, item)]
  /\ stored' = [stored EXCEPT ![r] = Append(@, [item |-> item, at |-> now])]
  /\ UNCHANGED fetched

\* Mutant: the status is the block's, the payload is stored all the same.
ListResolvedStoresAnyway(c) ==
  LET entry == MatchBlockList(blockList[c], Sender(env[c]), now) IN
  /\ pc[c] = "lookup"
  /\ Push(c, IF entry = NoMatch THEN "delivered" ELSE entry.ack)
  /\ Store(Recipient(c), <<c, Len(results[c]) + 1>>)
  /\ blockList' = [blockList EXCEPT ![c] = <<>>]
  /\ UNCHANGED <<answer, verdict>>

\* The list is matched at the present time; without a match the payload goes
\* to the inbox.
ListResolved(c) ==
  LET entry == MatchBlockList(blockList[c], Sender(env[c]), now) IN
  /\ pc[c] = "lookup"
  /\ \/ entry # NoMatch /\ Push(c, entry.ack) /\ UNCHANGED mailVars
     \/ /\ entry = NoMatch
        /\ Push(c, "delivered")
        /\ Store(Recipient(c), <<c, Len(results[c]) + 1>>)
  /\ blockList' = [blockList EXCEPT ![c] = <<>>]
  /\ UNCHANGED <<answer, verdict>>

\* The key lookup and the block-list lookup are not in a try block: process
\* rejects, after it may have stored the payload for earlier recipients.
LookupThrows(c) ==
  /\ pc[c] \in {"key", "lookup"}
  /\ pc' = [pc EXCEPT ![c] = "threw"]
  /\ answer' = [answer EXCEPT ![c] = "none"]
  /\ blockList' = [blockList EXCEPT ![c] = <<>>]
  /\ UNCHANGED <<verdict, results, mailVars>>

\* The user's client fetches: drain returns the whole queue and clears it.
Drain(r) ==
  /\ inbox[r] # <<>>
  /\ fetched' = [fetched EXCEPT ![r] = @ \o inbox[r]]
  /\ inbox' = [inbox EXCEPT ![r] = <<>>]
  /\ UNCHANGED <<pc, answer, blockList, verdict, results, stored>>

-----------------------------------------------------------------------------
(* What changes around the calls *)

HookChange ==
  /\ \/ \E d \in Domains, k \in DomainKeys \cup {NoKey} :
          /\ k # domainKey[d]
          /\ domainKey' = [domainKey EXCEPT ![d] = k]
          /\ UNCHANGED <<retired, envMac>>
     \/ \E c \in Calls :
          /\ env[c] # NoEnvelope
          /\ env[c].session \notin retired
          /\ retired' = retired \cup {env[c].session}
          /\ UNCHANGED <<domainKey, envMac>>
     \/ \E k \in MacKeys \ {envMac} : envMac' = k /\ UNCHANGED <<domainKey, retired>>
  /\ UNCHANGED <<now, skip>>

Clock ==
  /\ now < MaxTime
  /\ now' = now + 1
  /\ UNCHANGED <<domainKey, retired, envMac, skip>>

CallStep(c) ==
  KeyResolved(c) \/ SessionResolved(c) \/ SessionLookupFails(c) \/ DeliverOne(c)
  \/ ListResolved(c) \/ LookupThrows(c)

ServerStep ==
  /\ \/ \E c \in Calls : Process(c) \/ CallStep(c)
     \/ \E r \in LocalRecipients : Drain(r)
  /\ UNCHANGED <<hookVars, policyVars, changes>>

OtherStep ==
  /\ \/ Clock /\ UNCHANGED <<policyVars, changes>>
     \/ /\ changes < MaxChanges
        /\ changes' = changes + 1
        /\ \/ HookChange /\ UNCHANGED policyVars
           \/ PolicyNext /\ UNCHANGED hookVars
  /\ UNCHANGED <<pc, answer, blockList, verdict, results, mailVars>>

Next == (ServerStep \/ OtherStep) /\ UNCHANGED env /\ Observe

Spec == Init /\ [][Next]_vars

-----------------------------------------------------------------------------
(* Properties *)

\* The table at the head of pipeline.ts: an envelope is rejected for a check
\* that failed while it was processed, with every check before it passed, and
\* an envelope that reaches a recipient passed them all (the retired-session
\* check may fail open), although keys, sessions and time change in between.
JudgedInOrder ==
  \A c \in Calls :
    /\ pc[c] = "rejected" =>
         \E i \in DOMAIN Checks :
           /\ Checks[i] = verdict[c]
           /\ verdict[c] \in failing[c]
           /\ \A j \in 1..(i - 1) : Checks[j] \in passing[c] \cup {"handshake_invalid"}
    /\ pc[c] \in {"deliver", "lookup", "done"} =>
         Range(Checks) \subseteq passing[c] \cup {"handshake_invalid"}

\* A block of the brief's sender that is in force during the whole call keeps
\* the envelope out of the inbox: what is stored was let through by a list of
\* that user that was current while the envelope was processed. It is the
\* address the brief claims and that address's domain that are matched, not the
\* verified domain of the postmark, and deliverOne has no server and no group
\* to match. Whatever list the policy messages made, matchBlockList's loop, with
\* its early return, finds the most specific entry ("user > server > domain"),
\* the first among equals.
BlocksHold ==
  /\ \A i \in DOMAIN stored[UserId] :
       LET c == stored[UserId][i].item[1] IN
       \E list \in lists[c] :
         MostSpecific(list, Sender(env[c]), stored[UserId][i].at) = NoMatch
  /\ \A x \in {Sender(e) : e \in Envelopes}, g \in BOOLEAN, n \in Names :
       LET s == [x EXCEPT !.isGroup = g, !.server = n] IN
       MatchBlockList(BlockListOf(UserId), s, now) = MostSpecific(BlockListOf(UserId), s, now)

\* Payloads reach the client in the order they were stored and once each, and
\* only a full queue loses any: the last MaxDepth stored are never lost.
MailKept ==
  \A r \in LocalRecipients :
    LET kept == fetched[r] \o inbox[r]
        place(x) == CHOOSE i \in DOMAIN stored[r] : stored[r][i].item = x
    IN /\ \A i, j \in DOMAIN kept : i < j => place(kept[i]) < place(kept[j])
       /\ \A i \in DOMAIN stored[r] :
            i > Len(stored[r]) - MaxDepth => stored[r][i].item \in Range(kept)
=============================================================================
