----------------------------- MODULE MCPipeline -----------------------------
(* Small instances of Pipeline with PolicyState. *)
EXTENDS Pipeline

CONSTANTS c1, c2

Block(id, type, name, ack, expires) ==
  [id |-> id, type |-> type, name |-> name, scope |-> "all", expires |-> expires, ack |-> ack]
Op(op, kind, id, entry) == [op |-> op, kind |-> kind, entry_id |-> id, entry |-> entry]
Message(version, time, ops) ==
  [user_id |-> UserId, policy_version |-> version, timestamp |-> time, operations |-> ops]

\* Two devices block and unblock a sender and its domain; one message has an
\* unknown kind, one does not validate, one is for another account, one has
\* no version.
DeviceMessages ==
  {Message(1, 1, <<Op("add", BlockKind, "", Block("b1", "user", "eve", "silent", 0))>>),
   Message(2, 1, <<Op("remove", BlockKind, "b1", NoEntry),
                   Op("add", BlockKind, "", Block("b2", "domain", "evil", "rejected", 1)),
                   Op("add", BlockKind, "", Block("b3", "domain", "evil", "silent", 0)),
                   Op("add", BlockKind, "", Block("b4", "server", "mx", "silent", 0)),
                   Op("add", BlockKind, "", [Block("b5", "list", "eve", "silent", 0) EXCEPT !.scope = ""])>>),
   Message(2, 2, <<Op("modify", BlockKind, "b1", Block("b1", "user", "eve", "rejected", 0)),
                   Op("remove", BlockKind, "b3", NoEntry),
                   Op("modify", FirstContact, "", Block("f", "user", "eve", "rejected", 0))>>),
   Message(3, 1, <<Op("remove", BlockKind, "b1", NoEntry),
                   Op("add", "x.example/other", "", Block("x", "user", "eve", "silent", 0))>>),
   Message(3, 2, <<Op("add", FirstContact, "", Block("f", "user", "eve", "rejected", 0))>>),
   [Message(4, 1, <<Op("remove", BlockKind, "b1", NoEntry)>>) EXCEPT !.user_id = "bob"],
   Message(0, 9, <<Op("remove", BlockKind, "b1", NoEntry)>>)}

Gates == [r \in LocalRecipients |-> IF r = "carol" THEN "silent" ELSE "delivered"]
\* Everything on, a submission server, a server that trusts its sessions.
Configs == {{}, {1, 4}, {2, 3}}
Kinds == {BlockKind, FirstContact}
Keys == [d \in Domains |-> IF d = "evil" THEN "k1" ELSE NoKey]

Envelope(domain, from, to) ==
  [domain |-> domain, key |-> "k1", mac |-> "m1", expires |-> 0, session |-> "s1",
   brief |-> "ok", from |-> from, fromDomain |-> domain, to |-> to]
Mail == Envelope("evil", "eve", <<"alice", "bob">>)

ToAlice == [Mail EXCEPT !.to = <<"alice">>]

\* The brief claims a sender of another domain than the postmark's.
Claimed == [ToAlice EXCEPT !.from = "ann", !.fromDomain = "fair"]

Twice == [Mail EXCEPT !.to = <<"alice", "alice">>]

\* One envelope for everyone, and for each check one that it concerns.
Arriving ==
  {Mail, ToAlice,
   [Mail EXCEPT !.from = NoMatch, !.to = <<"alice", "remote", "carol", "alice">>],
   [Mail EXCEPT !.expires = 1, !.to = <<"alice">>],
   [Mail EXCEPT !.session = ""],
   [Mail EXCEPT !.mac = "m2", !.to = <<>>],
   [Mail EXCEPT !.brief = "sealed"],
   [Mail EXCEPT !.brief = "no_to"],
   Envelope("refused", "eve", <<"alice">>), Claimed, Twice}

\* Any of them alone, and two mails of one sender at the same time, which are
\* three payloads for one inbox.
AloneOrTwo ==
  {[c \in Calls |-> IF c = c1 THEN e ELSE NoEnvelope] : e \in Arriving}
  \cup {[c \in Calls |-> IF c = c1 THEN ToAlice ELSE Twice]}
=============================================================================
