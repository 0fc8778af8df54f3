--------------------------- MODULE SessionProofs ---------------------------
(***************************************************************************)
(* The rekey exchange leaves both ends with the same keys, a dial that     *)
(* fails leaves no connection, both wires return what arrives in order,    *)
(* and a client that gets a session shares it with its server, or reads    *)
(* why it was refused.                                                     *)
(***************************************************************************)
EXTENDS Wires, Connect, SequenceTheorems, FiniteSetTheorems, WellFoundedInduction, TLAPS

-----------------------------------------------------------------------------
(* Types *)

SessionKeySet == [a : Nat, b : Nat]
Frames ==
  [type : {"SEMP_REKEY", "app"}, from : Ends, under : SessionKeySet,
   step : {"", "rekey-init", "rekey-accepted"}, nonce : Nat]

TypeOK ==
  /\ keys \in [Ends -> SessionKeySet]
  /\ closed \subseteq Ends
  /\ inbox \in [Ends -> Seq(Frames)]
  /\ call \in [Ends -> {"idle", "initiate", "respond", "sending"}]
  /\ mine \in [Ends -> Nat]
  /\ next \in [Ends -> SessionKeySet]
  /\ displaced \in BOOLEAN
  /\ nonces \in Nat

-----------------------------------------------------------------------------
(* The rekey frames of an inbox: r is what is left of q without the         *)
(* application frames. p has the places in q of the frames of r.            *)

Among(q, r) ==
  \E p \in [1..Len(r) -> 1..Len(q)] :
    /\ \A i, j \in 1..Len(r) : i < j => p[i] < p[j]
    /\ \A i \in 1..Len(r) : q[p[i]] = r[i]
    /\ \A n \in 1..Len(q) : q[n].type # "app" <=> \E i \in 1..Len(r) : p[i] = n

\* An application frame that arrives leaves them alone.
LEMMA AppArrives ==
  ASSUME NEW q \in Seq(Frames), NEW r \in Seq(Frames), Among(q, r), NEW f \in Frames, f.type = "app"
  PROVE  Among(Append(q, f), r)
<1>1. PICK p \in [1..Len(r) -> 1..Len(q)] :
        /\ \A i, j \in 1..Len(r) : i < j => p[i] < p[j]
        /\ \A i \in 1..Len(r) : q[p[i]] = r[i]
        /\ \A n \in 1..Len(q) : q[n].type # "app" <=> \E i \in 1..Len(r) : p[i] = n
  BY DEF Among
<1>2. /\ Len(q) \in Nat /\ Len(Append(q, f)) = Len(q) + 1
      /\ \A n \in 1..Len(q) : Append(q, f)[n] = q[n]
      /\ Append(q, f)[Len(q) + 1] = f
  BY AppendProperties, LenProperties
<1>3. p \in [1..Len(r) -> 1..Len(Append(q, f))]
  BY <1>2
<1>4. \A i \in 1..Len(r) : Append(q, f)[p[i]] = r[i]
  BY <1>1, <1>2
<1>5. ASSUME NEW n \in 1..Len(Append(q, f))
      PROVE  Append(q, f)[n].type # "app" <=> \E i \in 1..Len(r) : p[i] = n
  <2>1. CASE n \in 1..Len(q)
    BY <1>1, <1>2, <2>1
  <2>2. CASE n = Len(q) + 1
    <3>1. \A i \in 1..Len(r) : p[i] # n
      BY <1>2, <2>2
    <3> QED
      BY <1>2, <2>2, <3>1
  <2> QED
    BY <1>2, <2>1, <2>2
<1> QED
  BY <1>1, <1>3, <1>4, <1>5 DEF Among

\* A rekey frame that arrives is the last of them.
LEMMA RekeyArrives ==
  ASSUME NEW q \in Seq(Frames), NEW r \in Seq(Frames), Among(q, r), NEW f \in Frames, f.type # "app"
  PROVE  Among(Append(q, f), Append(r, f))
<1>1. PICK p \in [1..Len(r) -> 1..Len(q)] :
        /\ \A i, j \in 1..Len(r) : i < j => p[i] < p[j]
        /\ \A i \in 1..Len(r) : q[p[i]] = r[i]
        /\ \A n \in 1..Len(q) : q[n].type # "app" <=> \E i \in 1..Len(r) : p[i] = n
  BY DEF Among
<1> DEFINE Q == Append(q, f)
           R == Append(r, f)
           P == [i \in 1..Len(r) + 1 |-> IF i = Len(r) + 1 THEN Len(q) + 1 ELSE p[i]]
<1>2. /\ Len(q) \in Nat /\ Len(Q) = Len(q) + 1
      /\ \A n \in 1..Len(q) : Q[n] = q[n]
      /\ Q[Len(q) + 1] = f
  BY AppendProperties, LenProperties
<1>3. /\ Len(r) \in Nat /\ Len(R) = Len(r) + 1
      /\ \A n \in 1..Len(r) : R[n] = r[n]
      /\ R[Len(r) + 1] = f
  BY AppendProperties, LenProperties
<1>4. /\ \A i \in 1..Len(r) : P[i] = p[i] /\ P[i] \in 1..Len(q)
      /\ P[Len(r) + 1] = Len(q) + 1
      /\ DOMAIN P = 1..Len(r) + 1
  BY <1>3
<1>5. P \in [1..Len(R) -> 1..Len(Q)]
  BY <1>2, <1>3
<1> HIDE DEF Q, R, P
<1>6. ASSUME NEW i \in 1..Len(R), NEW j \in 1..Len(R), i < j PROVE P[i] < P[j]
  <2>1. i \in 1..Len(r) /\ (j \in 1..Len(r) \/ j = Len(r) + 1)
    BY <1>3, <1>6
  <2>2. CASE j \in 1..Len(r)
    BY <1>1, <1>4, <1>6, <2>1, <2>2
  <2>3. CASE j = Len(r) + 1
    BY <1>2, <1>4, <2>1, <2>3
  <2> QED
    BY <2>1, <2>2, <2>3
<1>7. ASSUME NEW i \in 1..Len(R) PROVE Q[P[i]] = R[i]
  <2>1. CASE i \in 1..Len(r)
    BY <1>1, <1>2, <1>3, <1>4, <2>1
  <2>2. CASE i = Len(r) + 1
    BY <1>2, <1>3, <1>4, <2>2
  <2> QED
    BY <1>3, <2>1, <2>2
<1>8. ASSUME NEW n \in 1..Len(Q) PROVE Q[n].type # "app" <=> \E i \in 1..Len(R) : P[i] = n
  <2>1. CASE n \in 1..Len(q)
    <3>1. ASSUME NEW i \in 1..Len(r), p[i] = n PROVE i \in 1..Len(R) /\ P[i] = n
      BY <1>3, <1>4, <3>1
    <3>2. ASSUME NEW i \in 1..Len(R), P[i] = n PROVE i \in 1..Len(r) /\ p[i] = n
      <4>1. i # Len(r) + 1
        BY <1>2, <1>4, <2>1, <3>2
      <4>2. i \in 1..Len(r)
        BY <1>3, <4>1
      <4> QED
        BY <1>4, <3>2, <4>2
    <3> QED
      BY <1>1, <1>2, <2>1, <3>1, <3>2
  <2>2. CASE n = Len(q) + 1
    <3>1. Len(r) + 1 \in 1..Len(R) /\ P[Len(r) + 1] = n
      BY <1>3, <1>4, <2>2
    <3> QED
      BY <1>2, <2>2, <3>1
  <2> QED
    BY <1>2, <2>1, <2>2
<1> QED
  BY <1>5, <1>6, <1>7, <1>8 DEF Among, Q, R

\* An application frame that is read leaves them alone.
LEMMA AppRead ==
  ASSUME NEW q \in Seq(Frames), NEW r \in Seq(Frames), Among(q, r), q # <<>>, Head(q).type = "app"
  PROVE  Among(Tail(q), r)
<1>1. PICK p \in [1..Len(r) -> 1..Len(q)] :
        /\ \A i, j \in 1..Len(r) : i < j => p[i] < p[j]
        /\ \A i \in 1..Len(r) : q[p[i]] = r[i]
        /\ \A n \in 1..Len(q) : q[n].type # "app" <=> \E i \in 1..Len(r) : p[i] = n
  BY DEF Among
<1> DEFINE T == Tail(q)
           P == [i \in 1..Len(r) |-> p[i] - 1]
<1>2. /\ Len(q) \in Nat /\ Len(q) > 0 /\ q[1].type = "app" /\ Len(T) = Len(q) - 1
      /\ \A n \in 1..Len(T) : T[n] = q[n + 1]
  BY HeadTailProperties, LenProperties, EmptySeq
<1>3. \A i \in 1..Len(r) : p[i] \in 1..Len(q) /\ p[i] # 1
  BY <1>1, <1>2
<1>4. /\ P \in [1..Len(r) -> 1..Len(T)]
      /\ \A i \in 1..Len(r) : P[i] = p[i] - 1
  BY <1>2, <1>3
<1> HIDE DEF T, P
<1>5. \A i, j \in 1..Len(r) : i < j => P[i] < P[j]
  BY <1>1, <1>3, <1>4
<1>6. ASSUME NEW i \in 1..Len(r) PROVE T[P[i]] = r[i]
  <2>1. P[i] \in 1..Len(T) /\ P[i] + 1 = p[i]
    BY <1>3, <1>4
  <2> QED
    BY <1>1, <1>2, <2>1
<1>7. ASSUME NEW n \in 1..Len(T) PROVE T[n].type # "app" <=> \E i \in 1..Len(r) : P[i] = n
  <2>1. n + 1 \in 1..Len(q) /\ T[n] = q[n + 1]
    BY <1>2
  <2>2. \A i \in 1..Len(r) : P[i] = n <=> p[i] = n + 1
    BY <1>3, <1>4
  <2> QED
    BY <1>1, <2>1, <2>2
<1> QED
  BY <1>4, <1>5, <1>6, <1>7 DEF Among, T

\* A rekey frame that is read is the first of them.
LEMMA RekeyRead ==
  ASSUME NEW q \in Seq(Frames), NEW r \in Seq(Frames), Among(q, r), q # <<>>, Head(q).type # "app"
  PROVE  r # <<>> /\ Head(r) = Head(q) /\ Among(Tail(q), Tail(r))
<1>1. PICK p \in [1..Len(r) -> 1..Len(q)] :
        /\ \A i, j \in 1..Len(r) : i < j => p[i] < p[j]
        /\ \A i \in 1..Len(r) : q[p[i]] = r[i]
        /\ \A n \in 1..Len(q) : q[n].type # "app" <=> \E i \in 1..Len(r) : p[i] = n
  BY DEF Among
<1> DEFINE T == Tail(q)
           S == Tail(r)
           P == [i \in 1..Len(r) - 1 |-> p[i + 1] - 1]
<1>2. /\ Len(q) \in Nat /\ Len(q) > 0 /\ q[1] = Head(q) /\ Len(T) = Len(q) - 1
      /\ \A n \in 1..Len(T) : T[n] = q[n + 1]
  BY HeadTailProperties, LenProperties, EmptySeq
<1>3. PICK k \in 1..Len(r) : p[k] = 1
  BY <1>1, <1>2
<1>4. Len(r) \in Nat /\ Len(r) > 0 /\ r # <<>>
  BY <1>3, LenProperties, EmptySeq
<1>5. k = 1
  <2>1. p[1] \in 1..Len(q) /\ (1 < k => p[1] < p[k])
    BY <1>1, <1>4
  <2> QED
    BY <1>3, <2>1
<1>6. /\ r[1] = Head(r) /\ Len(S) = Len(r) - 1
      /\ \A n \in 1..Len(S) : S[n] = r[n + 1]
  BY <1>4, HeadTailProperties
<1>7. Head(r) = Head(q)
  BY <1>1, <1>2, <1>3, <1>5, <1>6
<1>8. \A i \in 1..Len(S) : i + 1 \in 1..Len(r) /\ p[i + 1] \in 1..Len(q) /\ p[i + 1] > 1
  <2> SUFFICES ASSUME NEW i \in 1..Len(S)
               PROVE  i + 1 \in 1..Len(r) /\ p[i + 1] \in 1..Len(q) /\ p[i + 1] > 1
    OBVIOUS
  <2>1. i + 1 \in 1..Len(r) /\ 1 \in 1..Len(r) /\ 1 < i + 1
    BY <1>4, <1>6
  <2> QED
    BY <1>1, <1>3, <1>5, <2>1
<1>9. /\ P \in [1..Len(S) -> 1..Len(T)]
      /\ \A i \in 1..Len(S) : P[i] = p[i + 1] - 1
  BY <1>2, <1>6, <1>8
<1> HIDE DEF T, S, P
<1>10. ASSUME NEW i \in 1..Len(S), NEW j \in 1..Len(S), i < j PROVE P[i] < P[j]
  <2>1. p[i + 1] < p[j + 1]
    BY <1>1, <1>8, <1>10
  <2> QED
    BY <1>8, <1>9, <2>1
<1>11. ASSUME NEW i \in 1..Len(S) PROVE T[P[i]] = S[i]
  <2>1. P[i] \in 1..Len(T) /\ P[i] + 1 = p[i + 1] /\ i + 1 \in 1..Len(r)
    BY <1>8, <1>9
  <2>2. T[P[i]] = q[p[i + 1]]
    BY <1>2, <2>1
  <2>3. q[p[i + 1]] = r[i + 1]
    BY <1>1, <2>1
  <2> QED
    BY <1>6, <2>2, <2>3
<1>12. ASSUME NEW n \in 1..Len(T) PROVE T[n].type # "app" <=> \E i \in 1..Len(S) : P[i] = n
  <2>1. n + 1 \in 1..Len(q) /\ T[n] = q[n + 1]
    BY <1>2
  <2>2. ASSUME NEW i \in 1..Len(r), p[i] = n + 1 PROVE \E j \in 1..Len(S) : P[j] = n
    <3>1. i # 1
      BY <1>3, <1>5, <2>2
    <3>2. PICK j \in 1..Len(S) : j + 1 = i
      <4>1. i - 1 \in 1..Len(S) /\ (i - 1) + 1 = i
        BY <1>4, <1>6, <3>1
      <4> QED
        BY <4>1
    <3>3. P[j] = p[j + 1] - 1 /\ p[j + 1] = n + 1
      BY <1>9, <2>2, <3>2
    <3> QED
      BY <3>3
  <2>3. ASSUME NEW i \in 1..Len(S), P[i] = n PROVE i + 1 \in 1..Len(r) /\ p[i + 1] = n + 1
    BY <1>8, <1>9, <2>3
  <2> QED
    BY <1>1, <2>1, <2>2, <2>3
<1> QED
  BY <1>4, <1>7, <1>9, <1>10, <1>11, <1>12 DEF Among, T, S

\* r has the rekey frames of both inboxes.
Marked(r) == r \in [Ends -> Seq(Frames)] /\ \A e \in Ends : Among(inbox[e], r[e])

-----------------------------------------------------------------------------
(* Where a rekey may be. e is an end that initiated it, Peer(e) the other;  *)
(* r has the rekey frames on their way, whatever else is.                   *)

Calm(e) == call[e] \in {"idle", "respond"}
SameKeys == keys["client"] = keys["server"]

\* A rekey-init of e under the keys e has now; the one its call sent.
InitOf(e, f) == f.type = "SEMP_REKEY" /\ f.from = e /\ f.under = keys[e] /\ f.step = "rekey-init"
InitNow(e, f) == InitOf(e, f) /\ f.nonce = mine[e]

\* The answer to e, under the keys e still has.
AnswerTo(e, f) ==
  f.type = "SEMP_REKEY" /\ f.from = Peer(e) /\ f.under = keys[e] /\ f.step = "rekey-accepted"

NoRekey(r) == SameKeys /\ \A e \in Ends : Calm(e) /\ Len(r[e]) = 0

\* e waits, its init is on its way.
Asked(e, r) ==
  /\ SameKeys
  /\ call[e] = "initiate" /\ Len(r[e]) = 0
  /\ Calm(Peer(e)) /\ Len(r[Peer(e)]) = 1 /\ InitNow(e, r[Peer(e)][1])

\* Both initiated, and the peer took e's init for its answer and gave up: e is
\* about to do the same with the peer's.
Missed(e, r) ==
  /\ SameKeys
  /\ call[e] = "initiate" /\ Len(r[e]) = 1 /\ InitOf(Peer(e), r[e][1])
  /\ Calm(Peer(e)) /\ Len(r[Peer(e)]) = 0

\* Both initiated and both inits are on their way.
Crossed(e, r) ==
  /\ SameKeys
  /\ call[e] = "initiate" /\ Len(r[e]) = 1 /\ InitNow(Peer(e), r[e][1])
  /\ call[Peer(e)] = "initiate" /\ Len(r[Peer(e)]) = 1 /\ InitNow(e, r[Peer(e)][1])

\* Both initiated; e had given up and initiated again, behind its first init.
CrossedAgain(e, r) ==
  /\ SameKeys
  /\ call[e] = "initiate" /\ Len(r[e]) = 0
  /\ call[Peer(e)] = "initiate" /\ Len(r[Peer(e)]) = 2
  /\ InitOf(e, r[Peer(e)][1]) /\ InitNow(e, r[Peer(e)][2])

\* The peer has sent its answer and not applied the new keys yet; e neither.
Answered(e, r) ==
  /\ SameKeys
  /\ call[e] = "initiate" /\ Len(r[e]) = 1 /\ AnswerTo(e, r[e][1])
  /\ call[Peer(e)] = "sending" /\ Len(r[Peer(e)]) = 0
  /\ next[Peer(e)] = [a |-> mine[e], b |-> r[e][1].nonce]

\* The peer applied the new keys before e, and may have initiated already.
ResponderAhead(e, r) ==
  /\ call[e] = "initiate" /\ Len(r[e]) \in {1, 2} /\ AnswerTo(e, r[e][1])
  /\ keys[Peer(e)] = [a |-> mine[e], b |-> r[e][1].nonce]
  /\ Len(r[Peer(e)]) = 0
  /\ \/ Calm(Peer(e)) /\ Len(r[e]) = 1
     \/ call[Peer(e)] = "initiate" /\ Len(r[e]) = 2 /\ InitNow(Peer(e), r[e][2])

\* e applied the new keys before the peer, and may have initiated already.
InitiatorAhead(e, r) ==
  /\ call[Peer(e)] = "sending" /\ Len(r[e]) = 0
  /\ keys[e] = next[Peer(e)]
  /\ \/ Calm(e) /\ Len(r[Peer(e)]) = 0
     \/ call[e] = "initiate" /\ Len(r[Peer(e)]) = 1 /\ InitNow(e, r[Peer(e)][1])

Rekeying(e, r) ==
  \/ Asked(e, r) \/ Missed(e, r) \/ Crossed(e, r) \/ CrossedAgain(e, r)
  \/ Answered(e, r) \/ ResponderAhead(e, r) \/ InitiatorAhead(e, r)

Stages(r) == NoRekey(r) \/ \E e \in Ends : Rekeying(e, r)
OpenStages == \E r : Marked(r) /\ Stages(r)
OpenInv == closed = {} /\ ~displaced => OpenStages

-----------------------------------------------------------------------------
(* Ends and inboxes *)

\* There are two ends, each the peer of the other.
LEMMA TwoEnds ==
  ASSUME NEW e \in Ends
  PROVE  /\ Peer(e) \in Ends /\ Peer(e) # e /\ Peer(Peer(e)) = e
         /\ \A x \in Ends : x = e \/ x = Peer(e)
         /\ SameKeys <=> keys[e] = keys[Peer(e)]
BY DEF Ends, Peer, SameKeys

\* What Append and Tail do to the rekey frames of an inbox: r before, s after.
Added(x, f, r, s) ==
  /\ Len(s[x]) = Len(r[x]) + 1
  /\ \A n \in 1..Len(r[x]) : s[x][n] = r[x][n]
  /\ s[x][Len(r[x]) + 1] = f
Dropped(x, r, s) ==
  /\ Len(r[x]) > 0
  /\ Len(s[x]) = Len(r[x]) - 1
  /\ \A n \in 1..Len(s[x]) : s[x][n] = r[x][n + 1]

\* A rekey frame that is sent is the last one of the peer's inbox.
LEMMA Delivered ==
  ASSUME TypeOK, NEW r, Marked(r), NEW e \in Ends, NEW f \in Frames, f.type # "app", Send(e, f)
  PROVE  \E s : Marked(s)' /\ Added(Peer(e), f, r, s) /\ s[e] = r[e]
<1> DEFINE s == [r EXCEPT ![Peer(e)] = Append(r[Peer(e)], f)]
<1>1. Peer(e) \in Ends /\ Peer(e) # e /\ \A x \in Ends : x = e \/ x = Peer(e)
  BY TwoEnds
<1>2. /\ inbox[Peer(e)] \in Seq(Frames) /\ r[Peer(e)] \in Seq(Frames)
      /\ \A x \in Ends : Among(inbox[x], r[x])
  BY <1>1 DEF TypeOK, Marked
<1>3. Append(r[Peer(e)], f) \in Seq(Frames)
  BY <1>2, AppendProperties
<1>4. s \in [Ends -> Seq(Frames)] /\ s[Peer(e)] = Append(r[Peer(e)], f) /\ s[e] = r[e]
  BY <1>1, <1>3 DEF Marked
<1>5. inbox'[Peer(e)] = Append(inbox[Peer(e)], f) /\ inbox'[e] = inbox[e]
  BY <1>1 DEF Send, TypeOK
<1>6. Among(inbox'[Peer(e)], s[Peer(e)]) /\ Among(inbox'[e], s[e])
  BY <1>2, <1>4, <1>5, RekeyArrives
<1>7. Added(Peer(e), f, r, s)
  BY <1>2, <1>4, AppendProperties DEF Added
<1> HIDE DEF s
<1>8. Marked(s)'
  BY <1>1, <1>4, <1>6 DEF Marked
<1> QED
  BY <1>4, <1>7, <1>8

\* An application frame that is sent changes nothing for them.
LEMMA AppDelivered ==
  ASSUME TypeOK, NEW r, Marked(r), NEW e \in Ends, NEW f \in Frames, f.type = "app", Send(e, f)
  PROVE  Marked(r)'
<1>1. Peer(e) \in Ends /\ Peer(e) # e /\ \A x \in Ends : x = e \/ x = Peer(e)
  BY TwoEnds
<1>2. /\ inbox[Peer(e)] \in Seq(Frames) /\ r[Peer(e)] \in Seq(Frames)
      /\ \A x \in Ends : Among(inbox[x], r[x])
  BY <1>1 DEF TypeOK, Marked
<1>3. inbox'[Peer(e)] = Append(inbox[Peer(e)], f) /\ inbox'[e] = inbox[e]
  BY <1>1 DEF Send, TypeOK
<1>4. Among(Append(inbox[Peer(e)], f), r[Peer(e)])
  BY <1>1, <1>2, AppArrives
<1>5. Among(inbox'[Peer(e)], r[Peer(e)]) /\ Among(inbox'[e], r[e])
  BY <1>2, <1>3, <1>4
<1> QED
  BY <1>1, <1>5 DEF Marked

\* A rekey frame that is read is the first one of the inbox.
LEMMA Consumed ==
  ASSUME TypeOK, NEW r, Marked(r), NEW e \in Ends, inbox[e] # <<>>, Head(inbox[e]).type # "app",
         inbox'[e] = Tail(inbox[e])
  PROVE  /\ Len(r[e]) > 0 /\ Head(inbox[e]) = r[e][1] /\ r[e][1] \in Frames
         /\ Among(inbox'[e], Tail(r[e]))
         /\ Tail(r[e]) \in Seq(Frames)
         /\ \A s : s[e] = Tail(r[e]) => Dropped(e, r, s)
         /\ inbox'[Peer(e)] = inbox[Peer(e)] => \E s : Marked(s)' /\ Dropped(e, r, s) /\ s[Peer(e)] = r[Peer(e)]
<1>1. inbox[e] \in Seq(Frames) /\ r[e] \in Seq(Frames) /\ Among(inbox[e], r[e])
  BY DEF TypeOK, Marked
<1>2. r[e] # <<>> /\ Head(r[e]) = Head(inbox[e]) /\ Among(Tail(inbox[e]), Tail(r[e]))
  BY <1>1, RekeyRead
<1>3. Len(r[e]) > 0 /\ Head(r[e]) = r[e][1] /\ r[e][1] \in Frames
  BY <1>1, <1>2, EmptySeq, LenProperties
<1>4. /\ Tail(r[e]) \in Seq(Frames) /\ Len(Tail(r[e])) = Len(r[e]) - 1
      /\ \A n \in 1..Len(Tail(r[e])) : Tail(r[e])[n] = r[e][n + 1]
  BY <1>1, <1>2, HeadTailProperties
<1>5. ASSUME NEW s, s[e] = Tail(r[e]) PROVE Dropped(e, r, s)
  BY <1>3, <1>4, <1>5 DEF Dropped
<1>6. ASSUME inbox'[Peer(e)] = inbox[Peer(e)]
      PROVE  \E s : Marked(s)' /\ Dropped(e, r, s) /\ s[Peer(e)] = r[Peer(e)]
  <2> DEFINE s == [r EXCEPT ![e] = Tail(r[e])]
  <2>1. Peer(e) \in Ends /\ Peer(e) # e /\ \A x \in Ends : x = e \/ x = Peer(e)
    BY TwoEnds
  <2>2. s \in [Ends -> Seq(Frames)] /\ s[e] = Tail(r[e]) /\ s[Peer(e)] = r[Peer(e)]
    BY <1>4, <2>1 DEF Marked
  <2> HIDE DEF s
  <2>3. Among(inbox'[e], s[e]) /\ Among(inbox'[Peer(e)], s[Peer(e)])
    BY <1>2, <1>6, <2>1, <2>2 DEF Marked
  <2>4. Marked(s)'
    BY <2>1, <2>2, <2>3 DEF Marked
  <2> QED
    BY <1>5, <2>2, <2>4
<1> QED
  BY <1>2, <1>3, <1>4, <1>5, <1>6

\* An application frame that is read changes nothing for them.
LEMMA AppConsumed ==
  ASSUME TypeOK, NEW r, Marked(r), NEW e \in Ends, inbox[e] # <<>>, Head(inbox[e]).type = "app", Take(e)
  PROVE  Marked(r)'
<1>1. inbox[e] \in Seq(Frames) /\ r[e] \in Seq(Frames) /\ Among(inbox[e], r[e])
  BY DEF TypeOK, Marked
<1>2. Peer(e) \in Ends /\ Peer(e) # e /\ \A x \in Ends : x = e \/ x = Peer(e)
  BY TwoEnds
<1>3. inbox'[e] = Tail(inbox[e]) /\ inbox'[Peer(e)] = inbox[Peer(e)]
  BY <1>2 DEF Take, TypeOK
<1>4. Among(inbox'[e], r[e])
  BY <1>1, <1>3, AppRead
<1> QED
  BY <1>2, <1>3, <1>4 DEF Marked

\* The frames that are sent.
LEMMA FramesSent ==
  ASSUME TypeOK, NEW e \in Ends
  PROVE  /\ \A step \in {"rekey-init", "rekey-accepted"}, n \in Nat : Sealed(e, step, n) \in Frames
         /\ AppFrame(e) \in Frames
BY DEF TypeOK, Sealed, AppFrame, Frames

-----------------------------------------------------------------------------
(* What the actions do, as far as the stages tell apart *)

\* rekeyClient sends its init and waits.
LEMMA RekeyClientDoes ==
  ASSUME TypeOK, NEW r, Marked(r), NEW e \in Ends, RekeyClient(e)
  PROVE  /\ call[e] = "idle" /\ call'[e] = "initiate" /\ call'[Peer(e)] = call[Peer(e)]
         /\ UNCHANGED <<keys, closed, next>> /\ mine'[Peer(e)] = mine[Peer(e)]
         /\ \E f, s : Marked(s)' /\ s[e] = r[e] /\ Added(Peer(e), f, r, s) /\ InitNow(e, f)'
<1>1. PICK f \in Frames : f = Sealed(e, "rekey-init", nonces + 1)
  BY FramesSent DEF TypeOK
<1>2. f.type = "SEMP_REKEY" /\ f.from = e /\ f.under = keys[e] /\ f.step = "rekey-init" /\ f.nonce = nonces + 1
  BY <1>1 DEF Sealed
<1>3. PICK s : Marked(s)' /\ Added(Peer(e), f, r, s) /\ s[e] = r[e]
  BY <1>1, <1>2, Delivered DEF RekeyClient
<1>4. InitNow(e, f)'
  BY <1>2 DEF RekeyClient, InitNow, InitOf, TypeOK
<1>5. /\ call[e] = "idle" /\ call'[e] = "initiate" /\ call'[Peer(e)] = call[Peer(e)]
      /\ UNCHANGED <<keys, closed, next>> /\ mine'[Peer(e)] = mine[Peer(e)]
  BY TwoEnds DEF RekeyClient, TypeOK
<1> QED
  BY <1>3, <1>4, <1>5

\* rekeyClient got the answer and applies the new keys.
LEMMA RekeyClientAppliesDoes ==
  ASSUME TypeOK, NEW r, Marked(r), NEW e \in Ends, RekeyClientApplies(e)
  PROVE  /\ call[e] = "initiate" /\ call'[e] = "idle" /\ call'[Peer(e)] = call[Peer(e)]
         /\ UNCHANGED <<closed, next>> /\ mine'[Peer(e)] = mine[Peer(e)]
         /\ Len(r[e]) > 0 /\ AnswerTo(e, r[e][1])
         /\ \E s : Marked(s)' /\ Dropped(e, r, s) /\ s[Peer(e)] = r[Peer(e)]
         /\ keys'[e] = [a |-> mine[e], b |-> r[e][1].nonce] /\ keys'[Peer(e)] = keys[Peer(e)]
<1>1. /\ inbox[e] # <<>> /\ Head(inbox[e]).type # "app"
      /\ inbox'[e] = Tail(inbox[e]) /\ inbox'[Peer(e)] = inbox[Peer(e)]
  BY TwoEnds DEF RekeyClientApplies, Take, Opens, TypeOK
<1>2. /\ Len(r[e]) > 0 /\ Head(inbox[e]) = r[e][1]
      /\ \E s : Marked(s)' /\ Dropped(e, r, s) /\ s[Peer(e)] = r[Peer(e)]
  BY <1>1, Consumed
<1> QED
  BY <1>2, TwoEnds DEF RekeyClientApplies, Return, Opens, AnswerTo, TypeOK

\* rekeyClient got another rekey frame than its answer and gives up.
LEMMA RekeyClientThrowsDoes ==
  ASSUME TypeOK, closed = {}, ~displaced', NEW r, Marked(r), NEW e \in Ends, RekeyClientThrows(e)
  PROVE  /\ call[e] = "initiate" /\ call'[e] = "idle" /\ call'[Peer(e)] = call[Peer(e)]
         /\ UNCHANGED <<keys, closed, next>> /\ mine'[Peer(e)] = mine[Peer(e)]
         /\ Len(r[e]) > 0 /\ ~AnswerTo(e, r[e][1])
         /\ \E s : Marked(s)' /\ Dropped(e, r, s) /\ s[Peer(e)] = r[Peer(e)]
<1>1. ~Gone(e)
  BY DEF Gone
<1>2. inbox[e] # <<>> /\ inbox' = [inbox EXCEPT ![e] = Tail(inbox[e])] /\ Head(inbox[e]).type # "app"
  BY <1>1 DEF RekeyClientThrows, Take
<1>3. inbox'[e] = Tail(inbox[e]) /\ inbox'[Peer(e)] = inbox[Peer(e)]
  BY <1>2, TwoEnds DEF TypeOK
<1>4. /\ Len(r[e]) > 0 /\ Head(inbox[e]) = r[e][1]
      /\ \E s : Marked(s)' /\ Dropped(e, r, s) /\ s[Peer(e)] = r[Peer(e)]
  BY <1>2, <1>3, Consumed
<1> QED
  BY <1>1, <1>4, TwoEnds DEF RekeyClientThrows, Return, Opens, AnswerTo, TypeOK

\* rekeyServer reads an init and sends its answer.
LEMMA RekeyServerAcceptsDoes ==
  ASSUME TypeOK, NEW r, Marked(r), NEW e \in Ends, RekeyServerAccepts(e)
  PROVE  /\ call[e] = "respond" /\ call'[e] = "sending" /\ call'[Peer(e)] = call[Peer(e)]
         /\ UNCHANGED <<keys, closed, mine>> /\ next'[Peer(e)] = next[Peer(e)]
         /\ Len(r[e]) > 0
         /\ \E f, s : /\ Marked(s)' /\ Dropped(e, r, s) /\ Added(Peer(e), f, r, s)
                      /\ f.type = "SEMP_REKEY" /\ f.from = e /\ f.under = keys[e]
                      /\ f.step = "rekey-accepted"
                      /\ next'[e] = [a |-> r[e][1].nonce, b |-> f.nonce]
<1>. PICK f : f = Sealed(e, "rekey-accepted", nonces + 1)
  OBVIOUS
<1>. PICK s : s = [r EXCEPT ![e] = Tail(r[e]), ![Peer(e)] = Append(r[Peer(e)], f)]
  OBVIOUS
<1>1. /\ f \in Frames /\ Peer(e) \in Ends /\ Peer(e) # e /\ \A x \in Ends : x = e \/ x = Peer(e)
      /\ inbox[Peer(e)] \in Seq(Frames) /\ r[Peer(e)] \in Seq(Frames) /\ Among(inbox[Peer(e)], r[Peer(e)])
  BY FramesSent, TwoEnds DEF TypeOK, Marked
<1>2. /\ inbox[e] # <<>> /\ Head(inbox[e]).type # "app"
      /\ inbox'[e] = Tail(inbox[e]) /\ inbox'[Peer(e)] = Append(inbox[Peer(e)], f)
  BY <1>1 DEF RekeyServerAccepts, Opens, TypeOK
<1>3. /\ Len(r[e]) > 0 /\ Head(inbox[e]) = r[e][1]
      /\ Among(inbox'[e], Tail(r[e])) /\ Tail(r[e]) \in Seq(Frames)
      /\ s[e] = Tail(r[e]) => Dropped(e, r, s)
  BY <1>2, Consumed
<1>4. f.type = "SEMP_REKEY" /\ f.from = e /\ f.under = keys[e] /\ f.step = "rekey-accepted" /\ f.nonce = nonces + 1
  BY DEF Sealed
<1>5. next'[e] = [a |-> r[e][1].nonce, b |-> nonces + 1] /\ next'[Peer(e)] = next[Peer(e)]
  BY <1>1, <1>3 DEF RekeyServerAccepts, TypeOK
<1>6. Append(r[Peer(e)], f) \in Seq(Frames) /\ Among(inbox'[Peer(e)], Append(r[Peer(e)], f))
  BY <1>1, <1>2, <1>4, RekeyArrives, AppendProperties
<1>7. s \in [Ends -> Seq(Frames)] /\ s[e] = Tail(r[e]) /\ s[Peer(e)] = Append(r[Peer(e)], f)
  BY <1>1, <1>3, <1>6 DEF Marked
<1>8. Added(Peer(e), f, r, s)
  BY <1>1, <1>7, AppendProperties DEF Added
<1>9. Marked(s)'
  BY <1>1, <1>3, <1>6, <1>7 DEF Marked
<1>10. call[e] = "respond" /\ call'[e] = "sending" /\ call'[Peer(e)] = call[Peer(e)]
       /\ UNCHANGED <<keys, closed, mine>>
  BY <1>1 DEF RekeyServerAccepts, TypeOK
<1> QED
  BY <1>3, <1>4, <1>5, <1>7, <1>8, <1>9, <1>10

\* rekeyServer applies the new keys once its answer is sent.
LEMMA RekeyServerAppliesDoes ==
  ASSUME TypeOK, closed = {}, NEW r, Marked(r), NEW e \in Ends, RekeyServerApplies(e)
  PROVE  /\ call[e] = "sending" /\ call'[e] = "idle" /\ call'[Peer(e)] = call[Peer(e)]
         /\ UNCHANGED <<closed, mine>> /\ next'[Peer(e)] = next[Peer(e)]
         /\ Marked(r)'
         /\ keys'[e] = next[e] /\ keys'[Peer(e)] = keys[Peer(e)]
BY TwoEnds DEF RekeyServerApplies, Return, TypeOK, Marked

\* rekeyServer read an application frame and gives up.
ServerSkips(x) == RekeyServerThrows(x) /\ inbox[x] # <<>> /\ Head(inbox[x]).type = "app"

\* rekeyServer got another rekey frame than an init and gives up.
LEMMA RekeyServerThrowsDoes ==
  ASSUME TypeOK, closed = {}, NEW r, Marked(r), NEW e \in Ends, RekeyServerThrows(e), ~ServerSkips(e)
  PROVE  /\ call[e] = "respond" /\ call'[e] = "idle" /\ call'[Peer(e)] = call[Peer(e)]
         /\ UNCHANGED <<keys, closed, mine, next>>
         /\ Len(r[e]) > 0 /\ ~Opens(e, r[e][1], "rekey-init")
<1>1. ~Gone(e)
  BY DEF Gone
<1>2. inbox[e] # <<>> /\ inbox' = [inbox EXCEPT ![e] = Tail(inbox[e])] /\ Head(inbox[e]).type # "app"
  BY <1>1 DEF RekeyServerThrows, ServerSkips, Take
<1>3. inbox'[e] = Tail(inbox[e])
  BY <1>2 DEF TypeOK
<1>4. Len(r[e]) > 0 /\ Head(inbox[e]) = r[e][1]
  BY <1>2, <1>3, Consumed
<1> QED
  BY <1>1, <1>4, TwoEnds DEF RekeyServerThrows, Return, TypeOK

-----------------------------------------------------------------------------
(* From stage to stage *)

\* The steps of an open end that its rekey frames do not notice, and the others.
Aside(x) == RekeyServer(x) \/ SendApp(x) \/ ReceiveApp(x) \/ ServerSkips(x)
Forward(x) ==
  \/ RekeyClient(x) \/ RekeyClientApplies(x) \/ RekeyClientThrows(x)
  \/ RekeyServerAccepts(x) \/ RekeyServerApplies(x) \/ (RekeyServerThrows(x) /\ ~ServerSkips(x))

\* While the keys are the same, the peer opens an init; it is no answer.
LEMMA OpensInit ==
  ASSUME NEW e \in Ends, SameKeys, NEW f, InitOf(Peer(e), f)
  PROVE  Opens(e, f, "rekey-init") /\ ~AnswerTo(e, f)
BY TwoEnds DEF Opens, InitOf, AnswerTo

\* A stage keeps when neither the rekey frames nor the keys change and an end
\* at most goes from idle to respond or back.
LEMMA StageKept ==
  ASSUME NEW r, Stages(r), UNCHANGED <<keys, mine, next>>,
         \A y \in Ends : call'[y] = call[y] \/ (Calm(y) /\ Calm(y)')
  PROVE  Stages(r)'
<1>1. \A y \in Ends : /\ Calm(y) => Calm(y)'
                      /\ call[y] \in {"initiate", "sending"} => call'[y] = call[y]
  BY DEF Calm
<1>2. \A y \in Ends : \A f :
        /\ InitOf(y, f) => InitOf(y, f)'
        /\ InitNow(y, f) => InitNow(y, f)'
        /\ AnswerTo(y, f) => AnswerTo(y, f)'
  BY DEF InitOf, InitNow, AnswerTo
<1>3. SameKeys => SameKeys'
  BY DEF SameKeys
<1>4. NoRekey(r) => NoRekey(r)'
  BY <1>1, <1>3 DEF NoRekey
<1>5. ASSUME NEW e \in Ends, Rekeying(e, r) PROVE Rekeying(e, r)'
  <2>1. Peer(e) \in Ends
    BY TwoEnds
  <2>2. (Asked(e, r) => Asked(e, r)') /\ (Missed(e, r) => Missed(e, r)')
    BY <1>1, <1>2, <1>3, <2>1 DEF Asked, Missed
  <2>3. (Crossed(e, r) => Crossed(e, r)') /\ (CrossedAgain(e, r) => CrossedAgain(e, r)')
    BY <1>1, <1>2, <1>3, <2>1 DEF Crossed, CrossedAgain
  <2>4. Answered(e, r) => Answered(e, r)'
    BY <1>1, <1>2, <1>3, <2>1 DEF Answered
  <2>5. ResponderAhead(e, r) => ResponderAhead(e, r)'
    BY <1>1, <1>2, <2>1 DEF ResponderAhead
  <2>6. InitiatorAhead(e, r) => InitiatorAhead(e, r)'
    BY <1>1, <1>2, <2>1 DEF InitiatorAhead
  <2> QED
    BY <1>5, <2>2, <2>3, <2>4, <2>5, <2>6 DEF Rekeying
<1> QED
  BY <1>4, <1>5 DEF Stages

\* Application frames come and go, are read by a rekeyServer, and an idle end
\* may start to respond: the exchange stays where it is.
LEMMA FromAside ==
  ASSUME TypeOK, closed = {}, NEW r, Marked(r), Stages(r), NEW x \in Ends, Aside(x)
  PROVE  OpenStages'
<1>1. /\ UNCHANGED <<keys, mine, next>>
      /\ \A y \in Ends : call'[y] = call[y] \/ (Calm(y) /\ Calm(y)')
  BY DEF Aside, RekeyServer, SendApp, ReceiveApp, ServerSkips, RekeyServerThrows, Return, Calm, TypeOK
<1>2. Stages(r)'
  BY <1>1, StageKept
<1>3. CASE RekeyServer(x)
  <2>1. Marked(r)'
    BY <1>3 DEF RekeyServer, Marked
  <2> QED
    BY <1>2, <2>1 DEF OpenStages
<1>4. CASE SendApp(x)
  <2>1. PICK f \in Frames : f.type = "app" /\ Send(x, f)
    BY <1>4, FramesSent DEF SendApp, AppFrame
  <2>2. Marked(r)'
    BY <2>1, AppDelivered
  <2> QED
    BY <1>2, <2>2 DEF OpenStages
<1>5. CASE ReceiveApp(x)
  <2>1. Marked(r)'
    BY <1>5, AppConsumed DEF ReceiveApp
  <2> QED
    BY <1>2, <2>1 DEF OpenStages
<1>6. CASE ServerSkips(x)
  <2>1. Take(x) /\ inbox[x] # <<>> /\ Head(inbox[x]).type = "app"
    BY <1>6 DEF ServerSkips, RekeyServerThrows, Gone, Opens
  <2>2. Marked(r)'
    BY <2>1, AppConsumed
  <2> QED
    BY <1>2, <2>2 DEF OpenStages
<1> QED
  BY <1>3, <1>4, <1>5, <1>6 DEF Aside

\* A rekey starts.
LEMMA FromNoRekey ==
  ASSUME TypeOK, closed = {}, ~displaced', NEW r, Marked(r), NoRekey(r), NEW x \in Ends, Forward(x)
  PROVE  OpenStages'
<1>1. \A e \in Ends : Len(r[e]) = 0 /\ call[e] \in {"idle", "respond"}
  BY DEF NoRekey, Calm
<1>2. CASE RekeyClient(x)
  <2>1. PICK f, s : Marked(s)' /\ s[x] = r[x] /\ Added(Peer(x), f, r, s) /\ InitNow(x, f)'
    BY <1>2, RekeyClientDoes
  <2>2. Len(s[Peer(x)]) = 1 /\ s[Peer(x)][1] = f
    BY <1>1, <2>1, TwoEnds DEF Added
  <2>3. call'[x] = "initiate" /\ call'[Peer(x)] = call[Peer(x)] /\ keys' = keys
    BY <1>2, RekeyClientDoes
  <2>4. Asked(x, s)'
    BY <1>1, <2>1, <2>2, <2>3, TwoEnds DEF NoRekey, Asked, SameKeys, Calm
  <2> QED
    BY <2>1, <2>4 DEF OpenStages, Stages, Rekeying
<1>3. CASE RekeyServerAccepts(x)
  BY <1>1, <1>3, RekeyServerAcceptsDoes
<1>4. CASE RekeyServerThrows(x) /\ ~ServerSkips(x)
  BY <1>1, <1>4, RekeyServerThrowsDoes
<1>5. CASE RekeyClientApplies(x) \/ RekeyClientThrows(x) \/ RekeyServerApplies(x)
  BY <1>1, <1>5 DEF RekeyClientApplies, RekeyClientThrows, RekeyServerApplies
<1> QED
  BY <1>2, <1>3, <1>4, <1>5 DEF Forward

\* e waits for the peer, which answers, initiates as well or reads nothing else.
LEMMA FromAsked ==
  ASSUME TypeOK, closed = {}, ~displaced', NEW r, Marked(r),
         NEW e \in Ends, Asked(e, r), NEW x \in Ends, Forward(x)
  PROVE  OpenStages'
<1> DEFINE p == Peer(e)
<1>1. p \in Ends /\ Peer(p) = e /\ p # e /\ (x = e \/ x = p)
  BY TwoEnds
<1>2. /\ call[e] = "initiate" /\ Len(r[e]) = 0 /\ call[p] \in {"idle", "respond"}
      /\ Len(r[p]) = 1 /\ InitNow(e, r[p][1]) /\ SameKeys
  BY DEF Asked, Calm
<1>3. CASE RekeyClient(x)
  <2>1. x = p
    BY <1>1, <1>2, <1>3, RekeyClientDoes
  <2>2. PICK f, s : Marked(s)' /\ s[p] = r[p] /\ Added(e, f, r, s) /\ InitNow(p, f)'
    BY <1>1, <1>3, <2>1, RekeyClientDoes
  <2>3. Len(s[e]) = 1 /\ s[e][1] = f
    BY <1>2, <2>2 DEF Added
  <2>4. call'[p] = "initiate" /\ call'[e] = "initiate" /\ UNCHANGED keys /\ mine'[e] = mine[e]
    BY <1>1, <1>2, <1>3, <2>1, RekeyClientDoes
  <2>5. Crossed(e, s)'
    BY <1>2, <2>2, <2>3, <2>4 DEF Crossed, SameKeys, InitNow, InitOf
  <2> QED
    BY <2>2, <2>5 DEF OpenStages, Stages, Rekeying
<1>4. CASE RekeyServerAccepts(x)
  <2>1. x = p
    BY <1>1, <1>2, <1>4, RekeyServerAcceptsDoes
  <2>2. PICK f, s : /\ Marked(s)' /\ Dropped(p, r, s) /\ Added(Peer(p), f, r, s)
                    /\ f.type = "SEMP_REKEY" /\ f.from = p /\ f.under = keys[p]
                    /\ f.step = "rekey-accepted" /\ next'[p] = [a |-> r[p][1].nonce, b |-> f.nonce]
    <3>1. p \in Ends /\ RekeyServerAccepts(p)
      BY <1>1, <1>4, <2>1
    <3> HIDE DEF p
    <3> QED
      BY <3>1, RekeyServerAcceptsDoes
  <2>3. Len(s[e]) = 1 /\ s[e][1] = f
    BY <1>1, <1>2, <2>2 DEF Added
  <2>4. /\ call'[p] = "sending" /\ call'[e] = "initiate" /\ UNCHANGED <<keys, mine>>
        /\ Len(s[p]) = 0
    BY <1>1, <1>2, <1>4, <2>1, <2>2, RekeyServerAcceptsDoes DEF Dropped
  <2>5. keys[p] = keys[e]
    BY <1>2, TwoEnds
  <2>6. Answered(e, s)'
    BY <1>2, <2>2, <2>3, <2>4, <2>5 DEF Answered, SameKeys, AnswerTo, InitNow
  <2> QED
    BY <2>2, <2>6 DEF OpenStages, Stages, Rekeying
<1>5. CASE RekeyClientApplies(x) \/ RekeyClientThrows(x)
  <2>1. x = e
    BY <1>1, <1>2, <1>5 DEF RekeyClientApplies, RekeyClientThrows
  <2>2. Len(r[e]) > 0
    BY <1>5, <2>1, RekeyClientAppliesDoes, RekeyClientThrowsDoes
  <2> QED
    BY <1>2, <2>2
<1>6. CASE RekeyServerApplies(x)
  BY <1>1, <1>2, <1>6, RekeyServerAppliesDoes
<1>7. CASE RekeyServerThrows(x) /\ ~ServerSkips(x)
  <2>1. x = p
    BY <1>1, <1>2, <1>7, RekeyServerThrowsDoes
  <2>2. Opens(p, r[p][1], "rekey-init")
    BY <1>1, <1>2, OpensInit DEF InitNow
  <2> QED
    BY <1>7, <2>1, <2>2, RekeyServerThrowsDoes
<1> QED
  BY <1>3, <1>4, <1>5, <1>6, <1>7 DEF Forward

\* e reads the peer's old init, which is no answer, and gives up; the peer may
\* initiate again behind it.
LEMMA FromMissed ==
  ASSUME TypeOK, closed = {}, ~displaced', NEW r, Marked(r),
         NEW e \in Ends, Missed(e, r), NEW x \in Ends, Forward(x)
  PROVE  OpenStages'
<1> DEFINE p == Peer(e)
<1>1. p \in Ends /\ Peer(p) = e /\ p # e /\ (x = e \/ x = p)
  BY TwoEnds
<1>2. /\ call[e] = "initiate" /\ Len(r[e]) = 1 /\ InitOf(p, r[e][1]) /\ SameKeys
      /\ call[p] \in {"idle", "respond"} /\ Len(r[p]) = 0
  BY DEF Missed, Calm
<1>3. ~AnswerTo(e, r[e][1])
  BY <1>2, OpensInit
<1>4. CASE RekeyClient(x)
  <2>1. x = p
    BY <1>1, <1>2, <1>4 DEF RekeyClient
  <2>2. PICK f, s : Marked(s)' /\ s[p] = r[p] /\ Added(e, f, r, s) /\ InitNow(p, f)'
    BY <1>1, <1>4, <2>1, RekeyClientDoes
  <2>3. Len(s[e]) = 2 /\ s[e][1] = r[e][1] /\ s[e][2] = f
    BY <1>2, <2>2 DEF Added
  <2>4. call'[p] = "initiate" /\ call'[e] = "initiate" /\ UNCHANGED keys
    BY <1>1, <1>2, <1>4, <2>1, RekeyClientDoes
  <2>5. CrossedAgain(p, s)'
    BY <1>1, <1>2, <2>2, <2>3, <2>4 DEF CrossedAgain, SameKeys, InitOf
  <2> QED
    BY <1>1, <2>2, <2>5 DEF OpenStages, Stages, Rekeying
<1>5. CASE RekeyClientApplies(x)
  BY <1>1, <1>2, <1>3, <1>5, RekeyClientAppliesDoes
<1>6. CASE RekeyClientThrows(x)
  <2>1. x = e
    BY <1>1, <1>2, <1>6, RekeyClientThrowsDoes
  <2>2. /\ call'[e] = "idle" /\ call'[p] = call[p] /\ UNCHANGED keys
        /\ \E s : Marked(s)' /\ Dropped(e, r, s) /\ s[p] = r[p]
    BY <1>6, <2>1, RekeyClientThrowsDoes
  <2>3. PICK s : Marked(s)' /\ Dropped(e, r, s) /\ s[p] = r[p]
    BY <2>2
  <2>4. NoRekey(s)'
    BY <1>1, <1>2, <2>2, <2>3, TwoEnds DEF NoRekey, SameKeys, Calm, Dropped
  <2> QED
    BY <2>3, <2>4 DEF OpenStages, Stages
<1>7. CASE RekeyServerAccepts(x) \/ (RekeyServerThrows(x) /\ ~ServerSkips(x))
  <2>1. x = p
    BY <1>1, <1>2, <1>7 DEF RekeyServerAccepts, RekeyServerThrows
  <2>2. Len(r[p]) > 0
    BY <1>1, <1>7, <2>1, RekeyServerAcceptsDoes, RekeyServerThrowsDoes
  <2> QED
    BY <1>2, <2>2
<1>8. CASE RekeyServerApplies(x)
  BY <1>1, <1>2, <1>8, RekeyServerAppliesDoes
<1> QED
  BY <1>4, <1>5, <1>6, <1>7, <1>8 DEF Forward

\* Whichever end reads first takes the other's init for its answer.
LEMMA FromCrossed ==
  ASSUME TypeOK, closed = {}, ~displaced', NEW r, Marked(r),
         NEW e \in Ends, Crossed(e, r), NEW x \in Ends, Forward(x)
  PROVE  OpenStages'
<1>1. /\ Peer(e) \in Ends /\ Peer(Peer(e)) = e
      /\ \A y \in Ends : call[y] = "initiate" /\ Len(r[y]) = 1 /\ InitNow(Peer(y), r[y][1])
      /\ SameKeys
  BY TwoEnds DEF Crossed
<1> DEFINE p == Peer(x)
<1>2. p \in Ends /\ Peer(p) = x /\ p # x
  BY TwoEnds
<1>3. ~AnswerTo(x, r[x][1])
  BY <1>1, OpensInit DEF InitNow
<1>4. CASE RekeyClientThrows(x)
  <2>1. /\ call'[x] = "idle" /\ call'[p] = call[p] /\ UNCHANGED keys
        /\ \E s : Marked(s)' /\ Dropped(x, r, s) /\ s[p] = r[p]
    BY <1>4, RekeyClientThrowsDoes
  <2>2. PICK s : Marked(s)' /\ Dropped(x, r, s) /\ s[p] = r[p]
    BY <2>1
  <2>3. Len(s[p]) = 1 /\ InitOf(x, s[p][1])'
    BY <1>1, <1>2, <2>1, <2>2 DEF InitNow, InitOf
  <2>4. Len(s[x]) = 0
    BY <1>1, <2>2 DEF Dropped
  <2>5. Missed(p, s)'
    BY <1>1, <1>2, <2>1, <2>3, <2>4 DEF Missed, SameKeys, Calm
  <2> QED
    BY <1>2, <2>2, <2>5 DEF OpenStages, Stages, Rekeying
<1>5. CASE RekeyClientApplies(x)
  BY <1>3, <1>5, RekeyClientAppliesDoes
<1> QED
  BY <1>1, <1>4, <1>5 DEF Forward, RekeyClient, RekeyServerAccepts, RekeyServerApplies, RekeyServerThrows

\* The peer reads e's first init and gives up; e's second is still on its way.
LEMMA FromCrossedAgain ==
  ASSUME TypeOK, closed = {}, ~displaced', NEW r, Marked(r),
         NEW e \in Ends, CrossedAgain(e, r), NEW x \in Ends, Forward(x)
  PROVE  OpenStages'
<1> DEFINE p == Peer(e)
<1>1. p \in Ends /\ Peer(p) = e /\ p # e /\ (x = e \/ x = p)
  BY TwoEnds
<1>2. /\ call[e] = "initiate" /\ Len(r[e]) = 0 /\ SameKeys
      /\ call[p] = "initiate" /\ Len(r[p]) = 2
      /\ InitOf(e, r[p][1]) /\ InitNow(e, r[p][2])
  BY DEF CrossedAgain
<1>3. ~AnswerTo(p, r[p][1])
  BY <1>1, <1>2, OpensInit
<1>4. CASE RekeyClientThrows(x)
  <2>1. Len(r[x]) > 0
    BY <1>4, RekeyClientThrowsDoes
  <2>2. x = p
    BY <1>1, <1>2, <2>1
  <2>3. /\ call'[p] = "idle" /\ call'[e] = call[e] /\ UNCHANGED keys /\ mine'[e] = mine[e]
        /\ \E s : Marked(s)' /\ Dropped(p, r, s) /\ s[e] = r[e]
    BY <1>1, <1>4, <2>2, RekeyClientThrowsDoes
  <2>4. PICK s : Marked(s)' /\ Dropped(p, r, s) /\ s[e] = r[e]
    BY <2>3
  <2>5. Len(s[p]) = 1 /\ s[p][1] = r[p][2]
    BY <1>2, <2>4 DEF Dropped
  <2>6. Asked(e, s)'
    BY <1>2, <2>3, <2>4, <2>5 DEF Asked, SameKeys, Calm, InitNow, InitOf
  <2> QED
    BY <2>4, <2>6 DEF OpenStages, Stages, Rekeying
<1>5. CASE RekeyClientApplies(x)
  <2>1. Len(r[x]) > 0 /\ AnswerTo(x, r[x][1])
    BY <1>5, RekeyClientAppliesDoes
  <2> QED
    BY <1>1, <1>2, <1>3, <2>1
<1> QED
  BY <1>1, <1>2, <1>4, <1>5 DEF Forward, RekeyClient, RekeyServerAccepts, RekeyServerApplies, RekeyServerThrows

\* Either end may be the first to apply the new keys.
LEMMA FromAnswered ==
  ASSUME TypeOK, closed = {}, ~displaced', NEW r, Marked(r),
         NEW e \in Ends, Answered(e, r), NEW x \in Ends, Forward(x)
  PROVE  OpenStages'
<1> DEFINE p == Peer(e)
<1>1. p \in Ends /\ Peer(p) = e /\ p # e /\ (x = e \/ x = p)
  BY TwoEnds
<1>2. /\ call[e] = "initiate" /\ Len(r[e]) = 1 /\ AnswerTo(e, r[e][1])
      /\ call[p] = "sending" /\ Len(r[p]) = 0
      /\ next[p] = [a |-> mine[e], b |-> r[e][1].nonce]
  BY DEF Answered
<1>3. CASE RekeyClientApplies(x)
  <2>1. x = e
    BY <1>1, <1>2, <1>3 DEF RekeyClientApplies
  <2>2. /\ call'[e] = "idle" /\ call'[p] = call[p] /\ UNCHANGED next
        /\ \E s : Marked(s)' /\ Dropped(e, r, s) /\ s[p] = r[p]
        /\ keys'[e] = [a |-> mine[e], b |-> r[e][1].nonce]
    BY <1>3, <2>1, RekeyClientAppliesDoes
  <2>3. PICK s : Marked(s)' /\ Dropped(e, r, s) /\ s[p] = r[p]
    BY <2>2
  <2>4. InitiatorAhead(e, s)'
    BY <1>2, <2>2, <2>3 DEF InitiatorAhead, Calm, Dropped
  <2> QED
    BY <2>3, <2>4 DEF OpenStages, Stages, Rekeying
<1>4. CASE RekeyClientThrows(x)
  BY <1>1, <1>2, <1>4, RekeyClientThrowsDoes
<1>5. CASE RekeyServerApplies(x)
  <2>1. x = p
    BY <1>1, <1>2, <1>5 DEF RekeyServerApplies
  <2>2. /\ call'[p] = "idle" /\ call'[e] = call[e] /\ UNCHANGED mine /\ Marked(r)'
        /\ keys'[p] = next[p] /\ keys'[e] = keys[e]
    BY <1>1, <1>5, <2>1, RekeyServerAppliesDoes
  <2>3. ResponderAhead(e, r)'
    BY <1>2, <2>2 DEF ResponderAhead, Calm, AnswerTo
  <2> QED
    BY <2>2, <2>3 DEF OpenStages, Stages, Rekeying
<1> QED
  BY <1>1, <1>2, <1>3, <1>4, <1>5 DEF Forward, RekeyClient, RekeyServerAccepts, RekeyServerThrows

\* e applies the keys the peer has; an init the peer sent meanwhile remains.
LEMMA FromResponderAhead ==
  ASSUME TypeOK, closed = {}, ~displaced', NEW r, Marked(r),
         NEW e \in Ends, ResponderAhead(e, r), NEW x \in Ends, Forward(x)
  PROVE  OpenStages'
<1> DEFINE p == Peer(e)
<1>1. p \in Ends /\ Peer(p) = e /\ p # e /\ (x = e \/ x = p)
  BY TwoEnds
<1>2. /\ call[e] = "initiate" /\ AnswerTo(e, r[e][1])
      /\ keys[p] = [a |-> mine[e], b |-> r[e][1].nonce] /\ Len(r[p]) = 0
      /\ call[p] \in {"idle", "respond", "initiate"}
      /\ Len(r[e]) = 1 \/ Len(r[e]) = 2
  BY DEF ResponderAhead, Calm
<1>3. CASE RekeyClient(x)
  <2>1. x = p /\ Len(r[e]) = 1
    BY <1>1, <1>2, <1>3 DEF RekeyClient, ResponderAhead
  <2>2. PICK f, s : Marked(s)' /\ s[p] = r[p] /\ Added(e, f, r, s) /\ InitNow(p, f)'
    BY <1>1, <1>3, <2>1, RekeyClientDoes
  <2>3. Len(s[e]) = 2 /\ s[e][1] = r[e][1] /\ s[e][2] = f
    BY <2>1, <2>2 DEF Added
  <2>4. call'[p] = "initiate" /\ call'[e] = "initiate" /\ UNCHANGED keys /\ mine'[e] = mine[e]
    BY <1>1, <1>2, <1>3, <2>1, RekeyClientDoes
  <2>5. AnswerTo(e, s[e][1])' /\ InitNow(p, s[e][2])'
    BY <1>2, <2>2, <2>3, <2>4 DEF AnswerTo
  <2>6. ResponderAhead(e, s)'
    BY <1>2, <2>2, <2>3, <2>4, <2>5 DEF ResponderAhead
  <2> QED
    BY <2>2, <2>6 DEF OpenStages, Stages, Rekeying
<1>4. CASE RekeyClientApplies(x)
  <2>1. x = e
    <3>1. Len(r[x]) > 0
      BY <1>4, RekeyClientAppliesDoes
    <3> QED
      BY <1>1, <1>2, <3>1
  <2>2. /\ call'[e] = "idle" /\ call'[p] = call[p] /\ mine'[p] = mine[p]
        /\ \E s : Marked(s)' /\ Dropped(e, r, s) /\ s[p] = r[p]
        /\ keys'[e] = keys[p] /\ keys'[p] = keys[p]
    BY <1>2, <1>4, <2>1, RekeyClientAppliesDoes
  <2>3. PICK s : Marked(s)' /\ Dropped(e, r, s) /\ s[p] = r[p]
    BY <2>2
  <2>4. SameKeys'
    BY <2>2, TwoEnds DEF SameKeys, Ends, Peer
  <2>5. CASE Calm(p) /\ Len(r[e]) = 1
    <3>1. Len(s[e]) = 0
      BY <2>5, <2>3 DEF Dropped
    <3>2. NoRekey(s)'
      BY <1>1, <1>2, <2>2, <2>4, <2>5, <2>3, <3>1, TwoEnds DEF NoRekey, Calm
    <3> QED
      BY <2>3, <3>2 DEF OpenStages, Stages
  <2>6. CASE call[p] = "initiate" /\ Len(r[e]) = 2 /\ InitNow(p, r[e][2])
    <3>1. Len(s[e]) = 1 /\ s[e][1] = r[e][2]
      BY <2>6, <2>3 DEF Dropped
    <3>2. InitNow(p, s[e][1])'
      BY <2>2, <2>6, <3>1 DEF InitNow, InitOf
    <3>3. Asked(p, s)'
      BY <1>1, <1>2, <2>2, <2>4, <2>6, <2>3, <3>1, <3>2 DEF Asked, Calm
    <3> QED
      BY <1>1, <2>3, <3>3 DEF OpenStages, Stages, Rekeying
  <2> QED
    BY <2>5, <2>6 DEF ResponderAhead
<1>5. CASE RekeyClientThrows(x)
  <2>1. Len(r[x]) > 0 /\ ~AnswerTo(x, r[x][1])
    BY <1>5, RekeyClientThrowsDoes
  <2> QED
    BY <1>1, <1>2, <2>1
<1>6. CASE RekeyServerAccepts(x) \/ (RekeyServerThrows(x) /\ ~ServerSkips(x))
  <2>1. Len(r[x]) > 0 /\ call[x] = "respond"
    BY <1>6, RekeyServerAcceptsDoes, RekeyServerThrowsDoes
  <2> QED
    BY <1>1, <1>2, <2>1
<1>7. CASE RekeyServerApplies(x)
  BY <1>1, <1>2, <1>7, RekeyServerAppliesDoes
<1> QED
  BY <1>3, <1>4, <1>5, <1>6, <1>7 DEF Forward

\* The peer applies the keys e has; an init e sent meanwhile remains.
LEMMA FromInitiatorAhead ==
  ASSUME TypeOK, closed = {}, ~displaced', NEW r, Marked(r),
         NEW e \in Ends, InitiatorAhead(e, r), NEW x \in Ends, Forward(x)
  PROVE  OpenStages'
<1> DEFINE p == Peer(e)
<1>1. p \in Ends /\ Peer(p) = e /\ p # e /\ (x = e \/ x = p)
  BY TwoEnds
<1>2. /\ call[p] = "sending" /\ Len(r[e]) = 0 /\ keys[e] = next[p]
      /\ call[e] \in {"idle", "respond", "initiate"}
  BY DEF InitiatorAhead, Calm
<1>3. CASE RekeyClient(x)
  <2>1. x = e /\ Len(r[p]) = 0
    BY <1>1, <1>2, <1>3 DEF RekeyClient, InitiatorAhead
  <2>2. PICK f, s : Marked(s)' /\ s[e] = r[e] /\ Added(p, f, r, s) /\ InitNow(e, f)'
    BY <1>3, <2>1, RekeyClientDoes
  <2>3. Len(s[p]) = 1 /\ s[p][1] = f
    BY <2>1, <2>2 DEF Added
  <2>4. call'[e] = "initiate" /\ call'[p] = "sending" /\ UNCHANGED <<keys, next>>
    BY <1>2, <1>3, <2>1, RekeyClientDoes
  <2>5. InitiatorAhead(e, s)'
    BY <1>2, <2>2, <2>3, <2>4 DEF InitiatorAhead
  <2> QED
    BY <2>2, <2>5 DEF OpenStages, Stages, Rekeying
<1>4. CASE RekeyServerApplies(x)
  <2>1. x = p
    BY <1>1, <1>2, <1>4, RekeyServerAppliesDoes
  <2>2. /\ call'[p] = "idle" /\ call'[e] = call[e] /\ UNCHANGED mine /\ Marked(r)'
        /\ keys'[p] = keys[e] /\ keys'[e] = keys[e]
    BY <1>1, <1>2, <1>4, <2>1, RekeyServerAppliesDoes
  <2>3. SameKeys'
    BY <2>2, TwoEnds DEF SameKeys, Ends, Peer
  <2>4. CASE Calm(e) /\ Len(r[p]) = 0
    <3>1. NoRekey(r)'
      BY <1>1, <1>2, <2>2, <2>3, <2>4, TwoEnds DEF NoRekey, Calm
    <3> QED
      BY <2>2, <3>1 DEF OpenStages, Stages
  <2>5. CASE call[e] = "initiate" /\ Len(r[p]) = 1 /\ InitNow(e, r[p][1])
    <3>1. InitNow(e, r[p][1])'
      BY <2>2, <2>5 DEF InitNow, InitOf
    <3>2. Asked(e, r)'
      BY <1>2, <2>2, <2>3, <2>5, <3>1 DEF Asked, Calm
    <3> QED
      BY <2>2, <3>2 DEF OpenStages, Stages, Rekeying
  <2> QED
    BY <2>4, <2>5 DEF InitiatorAhead
<1>5. CASE \/ RekeyClientApplies(x) \/ RekeyClientThrows(x) \/ RekeyServerAccepts(x)
           \/ RekeyServerThrows(x) /\ ~ServerSkips(x)
  <2>1. Len(r[x]) > 0 /\ call[x] # "sending"
    BY <1>5, RekeyClientAppliesDoes, RekeyClientThrowsDoes, RekeyServerAcceptsDoes, RekeyServerThrowsDoes
  <2> QED
    BY <1>1, <1>2, <2>1
<1> QED
  BY <1>3, <1>4, <1>5 DEF Forward

-----------------------------------------------------------------------------
(* The invariants *)

\* The variables of the two ends have their types in every reachable state.
LEMMA Typed == Spec => []TypeOK
<1>1. Init => TypeOK
  <2> SUFFICES ASSUME Init PROVE TypeOK
    OBVIOUS
  <2>1. InitialKeys \in SessionKeySet /\ <<>> \in Seq(Frames)
    BY EmptySeq DEF InitialKeys, SessionKeySet
  <2> QED
    BY <2>1 DEF Init, TypeOK
<1>2. ASSUME TypeOK, [Next]_vars PROVE TypeOK'
  <2>1. CASE UNCHANGED vars
    BY <1>2, <2>1 DEF vars, TypeOK
  <2> SUFFICES ASSUME NEW e \in Ends,
        \/ RekeyClient(e) \/ RekeyServer(e) \/ RekeyStep(e)
        \/ SendApp(e) \/ ReceiveApp(e) \/ Close(e) \/ Erase(e)
      PROVE TypeOK'
    BY <1>2, <2>1 DEF Next
  <2>2. Peer(e) \in Ends
    BY TwoEnds
  <2>3. ASSUME NEW f \in Frames, Send(e, f) PROVE inbox' \in [Ends -> Seq(Frames)]
    <3>1. Append(inbox[Peer(e)], f) \in Seq(Frames)
      BY <1>2, <2>2, <2>3, AppendProperties DEF TypeOK
    <3> QED
      BY <1>2, <2>3, <3>1 DEF Send, TypeOK
  <2>4. ASSUME inbox[e] # <<>>
        PROVE  Head(inbox[e]) \in Frames /\ Tail(inbox[e]) \in Seq(Frames)
    BY <1>2, <2>4, HeadTailProperties DEF TypeOK
  <2>5. ASSUME inbox[e] # <<>>, Take(e) PROVE inbox' \in [Ends -> Seq(Frames)]
    BY <1>2, <2>4, <2>5 DEF Take, TypeOK
  <2>6. CASE RekeyClient(e)
    <3>1. nonces + 1 \in Nat
      BY <1>2 DEF TypeOK
    <3>2. inbox' \in [Ends -> Seq(Frames)]
      BY <1>2, <2>3, <2>6, <3>1, FramesSent DEF RekeyClient
    <3> QED
      BY <1>2, <2>6, <3>1, <3>2 DEF RekeyClient, TypeOK
  <2>7. CASE RekeyServer(e)
    BY <1>2, <2>7 DEF RekeyServer, TypeOK
  <2>8. CASE RekeyClientApplies(e)
    <3>1. [a |-> mine[e], b |-> Head(inbox[e]).nonce] \in SessionKeySet
      BY <1>2, <2>4, <2>8 DEF RekeyClientApplies, TypeOK, Frames, SessionKeySet
    <3>2. inbox' \in [Ends -> Seq(Frames)]
      BY <2>5, <2>8 DEF RekeyClientApplies
    <3> QED
      BY <1>2, <2>8, <3>1, <3>2 DEF RekeyClientApplies, Return, TypeOK
  <2>9. CASE RekeyClientThrows(e)
    <3>1. inbox' \in [Ends -> Seq(Frames)]
      BY <1>2, <2>5, <2>9 DEF RekeyClientThrows, TypeOK
    <3>2. displaced' \in BOOLEAN
      BY <1>2, <2>9 DEF RekeyClientThrows, TypeOK
    <3> QED
      BY <1>2, <2>9, <3>1, <3>2 DEF RekeyClientThrows, Return, TypeOK
  <2>10. CASE RekeyServerAccepts(e)
    <3> DEFINE f == Sealed(e, "rekey-accepted", nonces + 1)
    <3>1. f \in Frames /\ nonces + 1 \in Nat
      BY <1>2, FramesSent DEF TypeOK
    <3>2. [a |-> Head(inbox[e]).nonce, b |-> nonces + 1] \in SessionKeySet
      BY <1>2, <2>4, <2>10, <3>1 DEF RekeyServerAccepts, Frames, SessionKeySet
    <3>3. Append(inbox[Peer(e)], f) \in Seq(Frames) /\ Tail(inbox[e]) \in Seq(Frames)
      BY <1>2, <2>2, <2>4, <2>10, <3>1, AppendProperties DEF RekeyServerAccepts, TypeOK
    <3>4. inbox' = [inbox EXCEPT ![e] = Tail(inbox[e]), ![Peer(e)] = Append(inbox[Peer(e)], f)]
      BY <1>2, <2>2, <2>10, TwoEnds DEF RekeyServerAccepts, TypeOK
    <3>5. inbox' \in [Ends -> Seq(Frames)]
      <4> HIDE DEF f
      <4> QED
        BY <1>2, <2>2, <3>3, <3>4 DEF TypeOK
    <3> QED
      BY <1>2, <2>10, <3>1, <3>2, <3>5 DEF RekeyServerAccepts, TypeOK
  <2>11. CASE RekeyServerApplies(e)
    <3>1. InitialKeys \in SessionKeySet
      BY DEF InitialKeys, SessionKeySet
    <3> QED
      BY <1>2, <2>11, <3>1 DEF RekeyServerApplies, Return, TypeOK
  <2>12. CASE RekeyServerThrows(e)
    <3>1. inbox' \in [Ends -> Seq(Frames)]
      BY <1>2, <2>5, <2>12 DEF RekeyServerThrows, TypeOK
    <3> QED
      BY <1>2, <2>12, <3>1 DEF RekeyServerThrows, Return, TypeOK
  <2>13. CASE SendApp(e)
    <3>1. inbox' \in [Ends -> Seq(Frames)]
      BY <1>2, <2>3, <2>13, FramesSent DEF SendApp
    <3> QED
      BY <1>2, <2>13, <3>1 DEF SendApp, TypeOK
  <2>14. CASE ReceiveApp(e)
    <3>1. inbox' \in [Ends -> Seq(Frames)]
      BY <2>5, <2>14 DEF ReceiveApp
    <3> QED
      BY <1>2, <2>14, <3>1 DEF ReceiveApp, TypeOK
  <2>15. CASE Close(e) \/ Erase(e)
    BY <1>2, <2>15 DEF Close, Erase, TypeOK
  <2> QED
    BY <2>6, <2>7, <2>8, <2>9, <2>10, <2>11, <2>12, <2>13, <2>14, <2>15 DEF RekeyStep
<1> QED
  BY <1>1, <1>2, PTL DEF Spec

\* An exchange between two open ends stays in its stages, as long as no
\* rekeyClient reads an application frame.
LEMMA OpenKept == Spec => []OpenInv
<1>1. Init => OpenInv
  <2> SUFFICES ASSUME Init PROVE OpenStages
    BY DEF OpenInv
  <2>1. PICK r : r = [e \in Ends |-> <<>>]
    OBVIOUS
  <2>2. \A e \in Ends : r[e] = <<>> /\ inbox[e] = <<>> /\ Len(r[e]) = 0
    BY <2>1, EmptySeq DEF Init
  <2>3. Among(<<>>, <<>>)
    <3>1. 1..Len(<<>>) = {}
      BY EmptySeq
    <3>2. PICK p : p = [i \in 1..Len(<<>>) |-> i]
      OBVIOUS
    <3>3. p \in [1..Len(<<>>) -> 1..Len(<<>>)]
      BY <3>2
    <3> QED
      BY <3>1, <3>3 DEF Among
  <2>4. Marked(r)
    BY <2>1, <2>2, <2>3, EmptySeq DEF Marked
  <2>5. NoRekey(r)
    BY <2>2 DEF Init, NoRekey, SameKeys, Calm, Ends
  <2> QED
    BY <2>4, <2>5 DEF OpenStages, Stages
<1>2. ASSUME OpenInv, TypeOK, [Next]_vars PROVE OpenInv'
  <2> SUFFICES ASSUME closed' = {}, ~displaced' PROVE OpenStages'
    BY DEF OpenInv
  <2>1. CASE UNCHANGED vars
    <3>1. /\ UNCHANGED <<keys, inbox, mine, next, closed, displaced>>
          /\ \A y \in Ends : call'[y] = call[y]
      BY <2>1 DEF vars
    <3>2. PICK r : Marked(r) /\ Stages(r)
      BY <1>2, <3>1 DEF OpenInv, OpenStages
    <3>3. Stages(r)'
      BY <3>1, <3>2, StageKept
    <3>4. Marked(r)'
      BY <3>1, <3>2 DEF Marked
    <3> QED
      BY <3>3, <3>4 DEF OpenStages
  <2> SUFFICES ASSUME NEW x \in Ends, Aside(x) \/ Forward(x) \/ Close(x) \/ Erase(x) PROVE OpenStages'
    BY <1>2, <2>1 DEF Next, RekeyStep, Aside, Forward
  <2>2. ~Close(x)
    BY DEF Close
  <2>3. closed = {}
    BY <2>2 DEF Aside, Forward, RekeyClient, RekeyServer, RekeyClientApplies, RekeyClientThrows, ServerSkips,
                RekeyServerAccepts, RekeyServerApplies, RekeyServerThrows, SendApp, ReceiveApp, Erase
  <2>4. Aside(x) \/ Forward(x)
    BY <2>2, <2>3 DEF Erase
  <2>5. ~displaced
    BY <1>2, <2>4 DEF Aside, Forward, RekeyClient, RekeyServer, RekeyClientApplies, RekeyClientThrows,
                      ServerSkips, RekeyServerAccepts, RekeyServerApplies, RekeyServerThrows, SendApp,
                      ReceiveApp, TypeOK
  <2>6. PICK r : Marked(r) /\ Stages(r)
    BY <1>2, <2>3, <2>5 DEF OpenInv, OpenStages
  <2>7. CASE Aside(x)
    BY <1>2, <2>3, <2>6, <2>7, FromAside
  <2>8. CASE Forward(x)
    <3>1. CASE NoRekey(r)
      BY <1>2, <2>3, <2>6, <2>8, <3>1, FromNoRekey
    <3>2. ASSUME NEW e \in Ends, Rekeying(e, r) PROVE OpenStages'
      BY <1>2, <2>3, <2>6, <2>8, <3>2, FromAsked, FromMissed, FromCrossed, FromCrossedAgain, FromAnswered,
         FromResponderAhead, FromInitiatorAhead DEF Rekeying
    <3> QED
      BY <2>6, <3>1, <3>2 DEF Stages
  <2> QED
    BY <2>4, <2>7, <2>8
<1> QED
  BY <1>1, <1>2, Typed, PTL DEF Spec

\* When no rekey is under way any more, both ends have the same keys, whoever
\* initiated, both at once included, and whatever application frames were sent and
\* read around it, unless a rekeyClient took one of them for its response
\* (rekeyClient, rekeyServer and applyRekey).
THEOREM RekeyKeysAgree == Spec => []KeysAgree
<1>1. ASSUME OpenInv, TypeOK PROVE KeysAgree
  <2> SUFFICES ASSUME Settled, ~displaced PROVE SameKeys
    BY DEF KeysAgree, SameKeys
  <2>1. PICK r : Marked(r) /\ Stages(r)
    BY <1>1 DEF Settled, OpenInv, OpenStages
  <2>2. ASSUME NEW e \in Ends, Rekeying(e, r) PROVE FALSE
    <3>1. call[e] \in {"idle", "respond"} /\ call[Peer(e)] \in {"idle", "respond"}
      BY TwoEnds DEF Settled
    <3> QED
      BY <2>2, <3>1 DEF Rekeying, Asked, Missed, Crossed, CrossedAgain, Answered, ResponderAhead, InitiatorAhead
  <2> QED
    BY <2>1, <2>2 DEF Stages, NoRekey
<1> QED
  BY <1>1, OpenKept, Typed, PTL

-----------------------------------------------------------------------------
(* The dial *)

\* A dial that has not started has no socket.
DialInv ==
  /\ dialing \in {"idle", "pending", "resolved", "rejected"}
  /\ dialing = "idle" => readyState = "none"
  /\ DialLeavesNothing

\* A dial that is rejected, also by the timer or the abort signal, leaves no
\* connection that is open or still opening (dial).
THEOREM DialLeavesNothingOpen == WebSocketSpec => []DialLeavesNothing
<1>1. WebSocketInit => DialInv
  BY DEF WebSocketInit, DialInv, DialLeavesNothing
<1>2. ASSUME DialInv, [WebSocketNext]_wsVars PROVE DialInv'
  <2>1. CASE UNCHANGED wsVars
    BY <1>2, <2>1 DEF wsVars, socketVars, DialInv, DialLeavesNothing
  <2>2. CASE Dial
    BY <1>2, <2>2 DEF Dial, DialInv, DialLeavesNothing
  <2>3. CASE DialOpens
    BY <1>2, <2>3 DEF DialOpens, DialInv, DialLeavesNothing
  <2>4. CASE DialFails
    BY <1>2, <2>4 DEF DialFails, DialInv, DialLeavesNothing
  <2>5. CASE SocketEnds
    BY <1>2, <2>5 DEF SocketEnds, DialInv, DialLeavesNothing
  <2>6. CASE dialing = "resolved" /\ dialing' = dialing
    BY <2>6 DEF DialInv, DialLeavesNothing
  <2>7. ASSUME \/ \E text \in BOOLEAN : PeerSendsFrame(text)
               \/ OnMessage \/ OnError \/ OnClose \/ WsSend \/ WsReceive \/ WsClose
        PROVE  dialing = "resolved" /\ dialing' = dialing
    BY <2>7 DEF PeerSendsFrame, OnMessage, OnError, OnClose, WsSend, WsReceive, WsClose
  <2> QED
    BY <1>2, <2>1, <2>2, <2>3, <2>4, <2>5, <2>6, <2>7 DEF WebSocketNext
<1> QED
  BY <1>1, <1>2, PTL DEF WebSocketSpec, DialInv

-----------------------------------------------------------------------------
(* The WebSocket returns what arrives, in order *)

WsTypes ==
  /\ wsFrames \in Nat
  /\ wsWire \in Seq([n : Nat \ {0}, text : BOOLEAN])
  /\ wsResults \in Seq(Int) /\ wsBuffer \in Seq(Nat \ {0}) /\ arrivals \in Seq(Nat \ {0})
  /\ waiters \in Seq(Nat) /\ wsSends \in Seq({"sent", "discarded", "rejected"})
  /\ wsClosed \in BOOLEAN /\ closeError \in BOOLEAN

\* The first n calls have the first n messages and the buffer has the rest;
\* the calls after them all wait, in their order, or all ended alike.
ServedFirst(n) ==
  /\ n \in 0..Len(wsResults)
  /\ Len(arrivals) = n + Len(wsBuffer)
  /\ \A i \in 1..n : wsResults[i] = arrivals[i]
  /\ \A j \in 1..Len(wsBuffer) : arrivals[n + j] = wsBuffer[j]
  /\ \A i \in (n + 1)..Len(wsResults) :
       wsResults[i] = IF Len(waiters) > 0 THEN Pending ELSE IF closeError THEN Rejected ELSE Null
  /\ \A k \in 1..Len(waiters) : waiters[k] = n + k
  /\ Len(waiters) > 0 => Len(wsResults) = n + Len(waiters) /\ ~wsClosed
  /\ n < Len(wsResults) => Len(wsBuffer) = 0 /\ (Len(waiters) > 0 \/ wsClosed)

\* The end of the transport comes with the end of its socket.
EndsTogether ==
  /\ closeError => wsClosed
  /\ wsClosed => readyState \in {"closing", "closed"}
  /\ wsClosed /\ ~closeError => readyState = "closed"
  /\ IF dialing = "resolved" THEN readyState \in {"open", "closing", "closed"} ELSE Len(wsSends) = 0 /\ ~wsClosed
  /\ \A i \in 1..Len(wsSends) : wsSends[i] # "sent" => readyState \in {"closing", "closed"}
  /\ \A i, j \in 1..Len(wsSends) : i < j /\ wsSends[i] # "sent" => wsSends[j] # "sent"

WsInv == WsTypes /\ EndsTogether /\ \E n \in Nat : ServedFirst(n)

LEMMA WsLengths ==
  ASSUME WsTypes
  PROVE  /\ Len(wsWire) \in Nat /\ Len(wsResults) \in Nat /\ Len(wsBuffer) \in Nat
         /\ Len(arrivals) \in Nat /\ Len(waiters) \in Nat /\ Len(wsSends) \in Nat
         /\ wsBuffer = <<>> <=> Len(wsBuffer) = 0
         /\ waiters = <<>> <=> Len(waiters) = 0
         /\ wsWire = <<>> <=> Len(wsWire) = 0
         /\ DOMAIN wsResults = 1..Len(wsResults) /\ DOMAIN wsSends = 1..Len(wsSends)
         /\ DOMAIN waiters = 1..Len(waiters)
         /\ \A i \in 1..Len(arrivals) : arrivals[i] \in Nat \ {0}
BY LenProperties, EmptySeq, ElementOfSeq DEF WsTypes

\* All the waiting calls are settled at once, as failAll and the close event do.
LEMMA AllSettled ==
  ASSUME WsTypes, NEW n \in Nat, ServedFirst(n), NEW outcome \in Int,
         wsResults' = Settle(waiters, outcome), waiters' = <<>>, wsClosed' = TRUE,
         UNCHANGED <<wsBuffer, arrivals>>, closeError' \in BOOLEAN,
         outcome = IF closeError' THEN Rejected ELSE Null,
         Len(waiters) = 0 /\ n < Len(wsResults) => closeError' = closeError
  PROVE  ServedFirst(n)' /\ wsResults' \in Seq(Int)
<1> DEFINE w == Len(waiters)
           r == Len(wsResults)
<1>1. w \in Nat /\ r \in Nat /\ DOMAIN wsResults = 1..r /\ DOMAIN waiters = 1..w
  BY WsLengths
<1>2. /\ n \in 0..r /\ \A k \in 1..w : waiters[k] = n + k
      /\ w > 0 => r = n + w
  BY DEF ServedFirst
<1> HIDE DEF w, r
<1>3. \A i \in 1..n : ~(\E k \in 1..w : waiters[k] = i)
  BY <1>1, <1>2
<1>4. \A i \in (n + 1)..r : w > 0 => i - n \in 1..w /\ waiters[i - n] = i
  BY <1>1, <1>2
<1>5. wsResults' = [i \in 1..r |-> IF \E k \in 1..w : waiters[k] = i THEN outcome ELSE wsResults[i]]
  BY <1>1 DEF Settle
<1>6. \A i \in 1..r : wsResults[i] \in Int
  BY ElementOfSeq DEF WsTypes, r
<1>7. wsResults' \in [1..r -> Int]
  BY <1>5, <1>6
<1>8. wsResults' \in Seq(Int) /\ Len(wsResults') = r
  BY <1>1, <1>7, SeqDef, LenProperties
<1>9. \A i \in 1..n : wsResults'[i] = wsResults[i]
  BY <1>2, <1>1, <1>3, <1>5
<1>10. \A i \in (n + 1)..r : wsResults'[i] = outcome
  <2> SUFFICES ASSUME NEW i \in (n + 1)..r PROVE wsResults'[i] = outcome
    OBVIOUS
  <2>1. i \in 1..r /\ n < r
    BY <1>1
  <2>2. CASE w > 0
    BY <1>4, <1>5, <2>1, <2>2
  <2>3. CASE w = 0
    <3>1. wsResults'[i] = wsResults[i]
      <4>1. ~(\E k \in 1..w : waiters[k] = i)
        BY <2>3
      <4> QED
        BY <1>5, <2>1, <4>1
    <3>2. wsResults[i] = IF closeError THEN Rejected ELSE Null
      BY <2>3 DEF ServedFirst, w, r
    <3> QED
      BY <2>1, <2>3, <3>1, <3>2 DEF w, r
  <2> QED
    BY <1>1, <2>2, <2>3
<1>11. Len(waiters') = 0 /\ Len(wsBuffer') = Len(wsBuffer) /\ Len(arrivals') = Len(arrivals)
  BY EmptySeq
<1>12. n < r => Len(wsBuffer) = 0
  BY DEF ServedFirst, r
<1>13. ServedFirst(n)'
  <2>1. /\ n \in 0..Len(wsResults')
        /\ \A i \in 1..n : wsResults'[i] = arrivals'[i]
    BY <1>1, <1>2, <1>8, <1>9 DEF ServedFirst
  <2>2. \A i \in (n + 1)..Len(wsResults') :
          wsResults'[i] = IF Len(waiters') > 0 THEN Pending ELSE IF closeError' THEN Rejected ELSE Null
    BY <1>8, <1>10, <1>11
  <2>3. Len(arrivals') = n + Len(wsBuffer') /\ \A j \in 1..Len(wsBuffer') : arrivals'[n + j] = wsBuffer'[j]
    BY DEF ServedFirst
  <2>4. (\A k \in 1..Len(waiters') : waiters'[k] = n + k) /\ ~(Len(waiters') > 0)
    BY <1>11
  <2>5. n < Len(wsResults') => Len(wsBuffer') = 0 /\ wsClosed'
    BY <1>8, <1>11, <1>12
  <2> QED
    BY <2>1, <2>2, <2>3, <2>4, <2>5 DEF ServedFirst
<1> QED
  BY <1>8, <1>13

\* Every handler and every method of the transport keeps the invariant.
LEMMA WebSocketStep ==
  ASSUME WsInv, [WebSocketNext]_wsVars
  PROVE  WsInv'
<1>1. PICK n \in Nat : ServedFirst(n)
  BY DEF WsInv
<1>2. WsTypes /\ EndsTogether
  BY DEF WsInv
<1>3. /\ Len(wsWire) \in Nat /\ Len(wsResults) \in Nat /\ Len(wsBuffer) \in Nat
      /\ Len(arrivals) \in Nat /\ Len(waiters) \in Nat /\ Len(wsSends) \in Nat
      /\ wsBuffer = <<>> <=> Len(wsBuffer) = 0
      /\ waiters = <<>> <=> Len(waiters) = 0
      /\ wsWire = <<>> <=> Len(wsWire) = 0
  BY <1>2, WsLengths
<1>4. wsFrames \in Nat /\ wsWire \in Seq([n : Nat \ {0}, text : BOOLEAN])
  BY <1>2 DEF WsTypes
<1>5. Len(wsWire) > 0 => /\ Head(wsWire) \in [n : Nat \ {0}, text : BOOLEAN]
                         /\ Tail(wsWire) \in Seq([n : Nat \ {0}, text : BOOLEAN])
  <2> DEFINE F == [n : Nat \ {0}, text : BOOLEAN]
  <2>1. wsWire \in Seq(F) /\ (Len(wsWire) > 0 => wsWire # <<>> /\ 1 \in 1..Len(wsWire))
    BY <1>3, <1>4
  <2> HIDE DEF F
  <2>2. Len(wsWire) > 0 => Head(wsWire) \in F /\ Tail(wsWire) \in Seq(F)
    BY <2>1, HeadTailProperties
  <2> QED
    BY <2>2 DEF F
\* A step that leaves messages and calls alone and does not open the socket.
<1>6. ASSUME UNCHANGED transportVars, wsFrames' \in Nat, wsWire' \in Seq([n : Nat \ {0}, text : BOOLEAN]),
             dialing' = "resolved" => readyState' \in {"open", "closing", "closed"},
             dialing = "resolved" =>
               /\ dialing' = "resolved" /\ (readyState = "closed" => readyState' = "closed")
               /\ readyState \in {"closing", "closed"} => readyState' \in {"closing", "closed"}
      PROVE  WsInv'
  <2>1. UNCHANGED <<wsSends, wsClosed, closeError, wsBuffer, waiters, wsResults, arrivals>>
    BY <1>6 DEF transportVars
  <2>2. ServedFirst(n)'
    BY <1>1, <2>1 DEF ServedFirst
  <2>3. WsTypes'
    BY <1>2, <1>6, <2>1 DEF WsTypes
  <2>4. EndsTogether'
    <3>1. CASE dialing = "resolved"
      BY <1>2, <1>6, <2>1, <3>1 DEF EndsTogether
    <3>2. CASE dialing # "resolved"
      <4>1. wsClosed' = FALSE /\ closeError' = FALSE /\ Len(wsSends') = 0
        BY <1>2, <2>1, <3>2 DEF EndsTogether, WsTypes
      <4>2. \A i \in 1..Len(wsSends') : FALSE
        BY <4>1
      <4> QED
        BY <1>6, <4>1, <4>2 DEF EndsTogether
    <3> QED
      BY <3>1, <3>2
  <2> QED
    BY <2>2, <2>3, <2>4 DEF WsInv
\* What a socket that closes does to the calls.
<1>7. ASSUME NEW outcome \in {Null, Rejected}, wsResults' = Settle(waiters, outcome), waiters' = <<>>,
             wsClosed' = TRUE, UNCHANGED <<dialing, wsFrames, wsBuffer, wsSends, arrivals>>, dialing = "resolved",
             wsWire' = wsWire \/ (Len(wsWire) > 0 /\ wsWire' = Tail(wsWire)),
             IF outcome = Rejected THEN closeError' = TRUE /\ readyState' = "closing" /\ (wsClosed => closeError)
             ELSE closeError' = closeError /\ readyState' = "closed" /\ (closeError => Len(waiters) = 0)
      PROVE  WsInv'
  <2>1. closeError' \in BOOLEAN /\ outcome \in Int /\ Null # Rejected
    <3>1. closeError' \in BOOLEAN
      BY <1>2, <1>7 DEF WsTypes
    <3>2. outcome \in Int /\ Null # Rejected
      BY DEF Null, Rejected
    <3> QED
      BY <3>1, <3>2
  <2>2. ~wsClosed => (Len(waiters) > 0 \/ ~(n < Len(wsResults))) /\ ~closeError
    BY <1>1, <1>2 DEF ServedFirst, EndsTogether
  <2>3. Len(waiters) = 0 /\ n < Len(wsResults) => closeError' = closeError
    <3> SUFFICES ASSUME Len(waiters) = 0, n < Len(wsResults) PROVE closeError' = closeError
      OBVIOUS
    <3>1. wsClosed /\ closeError \in BOOLEAN
      BY <1>2, <1>3, <2>2 DEF WsTypes
    <3>2. CASE outcome = Rejected
      BY <1>7, <3>1, <3>2
    <3>3. CASE outcome = Null
      BY <1>7, <2>1, <3>3
    <3> QED
      BY <1>7, <3>2, <3>3
  <2>4. ServedFirst(n)' /\ wsResults' \in Seq(Int)
    <3>1. CASE outcome = IF closeError' THEN Rejected ELSE Null
      BY <1>1, <1>2, <1>7, <2>1, <2>3, <3>1, AllSettled
    <3>2. CASE outcome = Null /\ closeError' /\ Len(waiters) = 0
      <4>1. wsResults' = wsResults
        <5>1. DOMAIN waiters = {}
          BY <1>2, <3>2, WsLengths
        <5>2. wsResults' = [i \in DOMAIN wsResults |-> wsResults[i]]
          BY <1>7, <5>1 DEF Settle
        <5>3. wsResults = [i \in DOMAIN wsResults |-> wsResults[i]]
          BY <1>2 DEF WsTypes
        <5> QED
          BY <5>2, <5>3
      <4>2. Len(waiters') = 0
        BY <1>7, EmptySeq
      <4>3. closeError' = closeError
        BY <1>7, <2>1, <3>2
      <4> QED
        BY <1>1, <1>2, <1>7, <3>2, <4>1, <4>2, <4>3 DEF ServedFirst, WsTypes
    <3> QED
      BY <1>7, <2>1, <3>1, <3>2
  <2>5. WsTypes'
    <3>1. waiters' \in Seq(Nat)
      BY <1>7, EmptySeq
    <3>2. wsWire' \in Seq([n : Nat \ {0}, text : BOOLEAN])
      BY <1>4, <1>5, <1>7
    <3> QED
      BY <1>2, <1>7, <2>1, <2>4, <3>1, <3>2 DEF WsTypes
  <2>6. EndsTogether'
    <3>1. readyState' \in {"closing", "closed"} /\ (closeError' \/ readyState' = "closed")
      BY <1>7
    <3> QED
      BY <1>2, <1>7, <3>1 DEF EndsTogether
  <2> QED
    BY <2>4, <2>5, <2>6 DEF WsInv
<1>8. CASE UNCHANGED wsVars
  BY <1>2, <1>4, <1>6, <1>8 DEF EndsTogether, wsVars, socketVars, transportVars
<1>9. CASE Dial \/ DialOpens \/ DialFails \/ SocketEnds
  BY <1>2, <1>4, <1>6, <1>9 DEF EndsTogether, Dial, DialOpens, DialFails, SocketEnds
<1>10. ASSUME NEW text \in BOOLEAN, PeerSendsFrame(text) PROVE WsInv'
  <2> DEFINE frame == [n |-> wsFrames + 1, text |-> text]
  <2>1. wsWire' = Append(wsWire, frame) /\ wsFrames' = wsFrames + 1 /\ UNCHANGED <<dialing, readyState, transportVars>>
    BY <1>10 DEF PeerSendsFrame
  <2>2. frame \in [n : Nat \ {0}, text : BOOLEAN]
    BY <1>4
  <2> HIDE DEF frame
  <2>3. wsWire' \in Seq([n : Nat \ {0}, text : BOOLEAN]) /\ wsFrames' \in Nat
    BY <1>4, <2>1, <2>2, AppendProperties
  <2> QED
    BY <1>2, <1>6, <2>1, <2>3 DEF EndsTogether
<1>11. CASE OnError
  <2>1. wsClosed => closeError
    BY <1>2, <1>11 DEF OnError, EndsTogether
  <2> QED
    BY <1>7, <1>11, <2>1 DEF OnError, FailAll
<1>12. CASE OnClose
  <2>1. closeError => Len(waiters) = 0
    BY <1>1, <1>2, <1>3 DEF ServedFirst, EndsTogether
  <2>2. Null # Rejected
    BY DEF Null, Rejected
  <2> QED
    BY <1>7, <1>12, <2>1, <2>2 DEF OnClose
<1>13. CASE WsClose
  BY <1>4, <1>13, <1>1, <1>2 DEF WsClose, WsInv, WsTypes, EndsTogether, ServedFirst
<1>14. CASE WsSend
  <2> DEFINE answer == IF wsClosed THEN "rejected" ELSE IF readyState = "open" THEN "sent" ELSE "discarded"
             s == Len(wsSends)
  <2>1. /\ dialing = "resolved" /\ wsSends' = Append(wsSends, answer)
        /\ UNCHANGED <<dialing, socketVars, wsBuffer, waiters, wsClosed, closeError, wsResults, closing, arrivals>>
    BY <1>14 DEF WsSend
  <2>2. wsSends \in Seq({"sent", "discarded", "rejected"}) /\ answer \in {"sent", "discarded", "rejected"}
    BY <1>2 DEF WsTypes
  <2>3. answer # "sent" <=> wsClosed \/ readyState # "open"
    OBVIOUS
  <2> HIDE DEF answer
  <2>4. /\ wsSends' \in Seq({"sent", "discarded", "rejected"}) /\ Len(wsSends') = s + 1
        /\ wsSends'[s + 1] = answer /\ \A i \in 1..s : wsSends'[i] = wsSends[i]
    BY <2>1, <2>2, AppendProperties
  <2>5. ServedFirst(n)'
    BY <1>1, <2>1 DEF ServedFirst
  <2>6. WsTypes'
    BY <1>2, <2>1, <2>4 DEF WsTypes, socketVars
  <2>7. readyState # "open" => readyState \in {"closing", "closed"}
    BY <1>2, <2>1 DEF EndsTogether
  <2>8. EndsTogether'
    <3>1. \A i \in 1..s : wsSends[i] # "sent" => readyState \in {"closing", "closed"}
      BY <1>2 DEF EndsTogether
    <3>2. answer # "sent" <=> readyState \in {"closing", "closed"}
      BY <1>2, <2>3, <2>7 DEF EndsTogether
    <3>3. \A i \in 1..(s + 1) : i \in 1..s \/ i = s + 1
      BY <1>3
    <3>4. \A i \in 1..(s + 1) : wsSends'[i] # "sent" => readyState \in {"closing", "closed"}
      BY <2>4, <3>1, <3>2, <3>3
    <3>5. ASSUME NEW i \in 1..(s + 1), NEW j \in 1..(s + 1), i < j, wsSends'[i] # "sent"
          PROVE  wsSends'[j] # "sent"
      <4>1. i \in 1..s
        BY <1>3, <3>5
      <4>2. CASE j = s + 1
        BY <2>4, <3>1, <3>2, <3>5, <4>1, <4>2
      <4>3. CASE j \in 1..s
        BY <1>2, <2>4, <3>5, <4>1, <4>3 DEF EndsTogether
      <4> QED
        BY <3>3, <4>2, <4>3
    <3> QED
      BY <1>2, <2>1, <2>4, <3>4, <3>5 DEF EndsTogether, socketVars
  <2> QED
    BY <2>5, <2>6, <2>8 DEF WsInv
<1>15. CASE WsReceive
  <2> DEFINE r == Len(wsResults)
  <2>1. dialing = "resolved" /\ UNCHANGED <<dialing, socketVars, wsClosed, closeError, wsSends, closing, arrivals>>
    BY <1>15 DEF WsReceive
  <2>2. EndsTogether'
    BY <1>2, <2>1 DEF EndsTogether, socketVars
  <2>3. ASSUME NEW x \in Int, wsResults' = Append(wsResults, x)
        PROVE  /\ wsResults' \in Seq(Int) /\ Len(wsResults') = r + 1
               /\ wsResults'[r + 1] = x /\ \A i \in 1..r : wsResults'[i] = wsResults[i]
    BY <1>2, <2>3, AppendProperties DEF WsTypes
  <2> HIDE DEF r
  <2>4. CASE wsBuffer # <<>> /\ wsResults' = Append(wsResults, Head(wsBuffer)) /\ wsBuffer' = Tail(wsBuffer)
             /\ UNCHANGED waiters
    <3> DEFINE b == Len(wsBuffer)
    <3>1. b \in Nat /\ b > 0 /\ n = r /\ Len(waiters) = 0
      BY <1>1, <1>3, <2>4 DEF ServedFirst, r
    <3>2. wsBuffer \in Seq(Nat \ {0})
      BY <1>2 DEF WsTypes
    <3>3. /\ Head(wsBuffer) = wsBuffer[1] /\ Head(wsBuffer) \in Nat \ {0}
          /\ wsBuffer' \in Seq(Nat \ {0}) /\ Len(wsBuffer') = b - 1
          /\ \A j \in 1..(b - 1) : wsBuffer'[j] = wsBuffer[j + 1]
      <4>1. Head(wsBuffer) \in Nat \ {0}
        BY <2>4, <3>2, HeadTailProperties
      <4>2. /\ wsBuffer' \in Seq(Nat \ {0}) /\ Len(wsBuffer') = b - 1
            /\ \A j \in 1..Len(wsBuffer') : wsBuffer'[j] = wsBuffer[j + 1]
        BY <2>4, <3>2, HeadTailProperties
      <4>3. Head(wsBuffer) = wsBuffer[1]
        BY <3>1, <3>2
      <4> QED
        BY <4>1, <4>2, <4>3
    <3> DEFINE x == Head(wsBuffer)
    <3> HIDE DEF x
    <3>4. x \in Int /\ x = wsBuffer[1] /\ wsResults' = Append(wsResults, x)
      BY <2>4, <3>3 DEF x
    <3>5. /\ wsResults' \in Seq(Int) /\ Len(wsResults') = r + 1
          /\ wsResults'[r + 1] = x /\ \A i \in 1..r : wsResults'[i] = wsResults[i]
      BY <2>3, <3>4
    <3>6. WsTypes'
      BY <1>2, <2>1, <2>4, <3>3, <3>5 DEF WsTypes, socketVars
    <3>7. /\ Len(arrivals) = r + b /\ \A i \in 1..r : wsResults[i] = arrivals[i]
          /\ \A j \in 1..b : arrivals[r + j] = wsBuffer[j]
      BY <1>1, <3>1 DEF ServedFirst
    <3>8. r \in Nat
      BY <1>3 DEF r
    <3> HIDE DEF b
    <3>9. \A i \in 1..(r + 1) : wsResults'[i] = arrivals[i]
      BY <3>1, <3>4, <3>5, <3>7, <3>8
    <3>10. \A j \in 1..(b - 1) : arrivals[(r + 1) + j] = wsBuffer'[j]
      <4> SUFFICES ASSUME NEW j \in 1..(b - 1) PROVE arrivals[(r + 1) + j] = wsBuffer'[j]
        OBVIOUS
      <4>1. j + 1 \in 1..b /\ r + (j + 1) = (r + 1) + j
        BY <3>1, <3>8
      <4> QED
        BY <3>3, <3>7, <4>1
    <3>11. ServedFirst(n + 1)'
      <4>1. n + 1 \in 0..Len(wsResults') /\ Len(arrivals') = (n + 1) + Len(wsBuffer')
        <5>1. n + 1 \in 0..Len(wsResults')
          BY <3>1, <3>5, <3>8
        <5>2. Len(arrivals') = r + b /\ Len(wsBuffer') = b - 1
          BY <2>1, <3>3, <3>7
        <5> QED
          BY <3>1, <3>8, <5>1, <5>2
      <4>2. \A j \in 1..Len(wsBuffer') : arrivals'[(n + 1) + j] = wsBuffer'[j]
        BY <2>1, <3>1, <3>3, <3>10
      <4>3. \A i \in 1..(n + 1) : wsResults'[i] = arrivals'[i]
        BY <2>1, <3>1, <3>9
      <4>4. ~(Len(waiters') > 0) /\ \A k \in 1..Len(waiters') : FALSE
        BY <2>4, <3>1
      <4>5. (\A i \in ((n + 1) + 1)..Len(wsResults') : FALSE) /\ ~(n + 1 < Len(wsResults'))
        BY <3>1, <3>5, <3>8
      <4> QED
        BY <4>1, <4>2, <4>3, <4>4, <4>5 DEF ServedFirst
    <3>12. n + 1 \in Nat
      OBVIOUS
    <3> QED
      BY <2>2, <3>6, <3>11, <3>12 DEF WsInv
  <2>5. CASE /\ wsBuffer = <<>> /\ wsClosed /\ UNCHANGED <<wsBuffer, waiters>>
             /\ wsResults' = Append(wsResults, IF closeError THEN Rejected ELSE Null)
    <3> DEFINE x == IF closeError THEN Rejected ELSE Null
    <3>1. x \in Int
      BY DEF Rejected, Null
    <3>2. x = IF closeError THEN Rejected ELSE Null
      OBVIOUS
    <3> HIDE DEF x
    <3>3. /\ wsResults' \in Seq(Int) /\ Len(wsResults') = r + 1
          /\ wsResults'[r + 1] = x /\ \A i \in 1..r : wsResults'[i] = wsResults[i]
      BY <2>3, <2>5, <3>1, <3>2
    <3>4. WsTypes'
      BY <1>2, <2>1, <2>5, <3>3 DEF WsTypes, socketVars
    <3>5. Len(waiters) = 0 /\ Len(wsBuffer) = 0 /\ r \in Nat /\ n \in 0..r
      BY <1>1, <1>3, <2>5 DEF ServedFirst, r
    <3>6. \A i \in (n + 1)..r : wsResults[i] = x
      BY <1>1, <3>2, <3>5 DEF ServedFirst, r
    <3>7. \A i \in (n + 1)..(r + 1) : wsResults'[i] = x
      BY <3>3, <3>5, <3>6
    <3>8. \A i \in 1..n : wsResults'[i] = wsResults[i]
      BY <3>3, <3>5
    <3>9. ServedFirst(n)'
      BY <1>1, <2>1, <2>5, <3>2, <3>3, <3>5, <3>7, <3>8 DEF ServedFirst
    <3> QED
      BY <2>2, <3>4, <3>9 DEF WsInv
  <2>6. CASE /\ wsBuffer = <<>> /\ ~wsClosed /\ UNCHANGED wsBuffer
             /\ wsResults' = Append(wsResults, Pending) /\ waiters' = Append(waiters, Len(wsResults) + 1)
    <3> DEFINE w == Len(waiters)
    <3>1. Pending \in Int
      BY DEF Pending
    <3>2. /\ wsResults' \in Seq(Int) /\ Len(wsResults') = r + 1
          /\ wsResults'[r + 1] = Pending /\ \A i \in 1..r : wsResults'[i] = wsResults[i]
      BY <2>3, <2>6, <3>1
    <3>3. r \in Nat /\ w \in Nat /\ Len(wsBuffer) = 0 /\ waiters \in Seq(Nat)
      BY <1>2, <1>3, <2>6 DEF r, WsTypes
    <3>4. /\ waiters' \in Seq(Nat) /\ Len(waiters') = w + 1
          /\ waiters'[w + 1] = r + 1 /\ \A k \in 1..w : waiters'[k] = waiters[k]
      BY <2>6, <3>3, AppendProperties DEF r
    <3>5. WsTypes'
      BY <1>2, <2>1, <2>6, <3>2, <3>4 DEF WsTypes, socketVars
    <3>6. n \in 0..r /\ r = n + w
      BY <1>1, <2>6, <3>3 DEF ServedFirst, r
    <3>7. \A i \in (n + 1)..r : wsResults[i] = Pending
      BY <1>1, <3>3, <3>6 DEF ServedFirst, r
    <3>8. \A i \in (n + 1)..(r + 1) : wsResults'[i] = Pending
      <4>1. \A i \in (n + 1)..(r + 1) : i = r + 1 \/ (i \in (n + 1)..r /\ i \in 1..r)
        BY <3>3, <3>6
      <4> QED
        BY <3>2, <3>7, <4>1
    <3>9. \A i \in 1..n : wsResults'[i] = wsResults[i]
      BY <3>2, <3>3, <3>6
    <3>10. \A k \in 1..(w + 1) : waiters'[k] = n + k
      <4>1. \A k \in 1..(w + 1) : k \in 1..w \/ k = w + 1
        BY <3>3
      <4>2. n + (w + 1) = r + 1
        BY <3>3, <3>6
      <4>3. \A k \in 1..w : waiters[k] = n + k
        BY <1>1 DEF ServedFirst
      <4> QED
        BY <3>4, <4>1, <4>2, <4>3
    <3>11. ServedFirst(n)'
      <4>1. n \in 0..Len(wsResults')
        BY <3>2, <3>3, <3>6
      <4>2. /\ Len(arrivals') = n + Len(wsBuffer') /\ \A i \in 1..n : wsResults'[i] = arrivals'[i]
            /\ \A j \in 1..Len(wsBuffer') : arrivals'[n + j] = wsBuffer'[j]
        BY <1>1, <2>1, <2>6, <3>9 DEF ServedFirst
      <4>3. Len(waiters') > 0 /\ \A i \in (n + 1)..Len(wsResults') : wsResults'[i] = Pending
        BY <3>2, <3>3, <3>4, <3>8
      <4>4. \A k \in 1..Len(waiters') : waiters'[k] = n + k
        BY <3>4, <3>10
      <4>5. Len(wsResults') = n + Len(waiters')
        BY <3>2, <3>3, <3>4, <3>6
      <4>6. ~wsClosed' /\ Len(wsBuffer') = 0
        BY <2>1, <2>6, <3>3
      <4> QED
        BY <4>1, <4>2, <4>3, <4>4, <4>5, <4>6 DEF ServedFirst
    <3> QED
      BY <2>2, <3>5, <3>11 DEF WsInv
  <2> QED
    BY <1>15, <2>4, <2>5, <2>6 DEF WsReceive
<1>16. CASE OnMessage
  <2> DEFINE frame == Head(wsWire)
  <2>1. /\ readyState = "open" /\ dialing = "resolved" /\ Len(wsWire) > 0 /\ wsWire' = Tail(wsWire)
        /\ UNCHANGED <<dialing, wsFrames, wsSends, closing>>
    BY <1>3, <1>16 DEF OnMessage
  <2>2. frame \in [n : Nat \ {0}, text : BOOLEAN] /\ wsWire' \in Seq([n : Nat \ {0}, text : BOOLEAN])
    BY <1>5, <2>1
  <2>3. frame.n \in Nat \ {0} /\ ~wsClosed /\ ~closeError
    BY <1>2, <2>1, <2>2 DEF EndsTogether
  <2> HIDE DEF frame
  <2> DEFINE x == frame.n
             a == Len(arrivals)
             r == Len(wsResults)
             w == Len(waiters)
             b == Len(wsBuffer)
  <2>4. a \in Nat /\ r \in Nat /\ w \in Nat /\ b \in Nat /\ x \in Nat \ {0} /\ x \in Int
    BY <1>3, <2>3
  <2>5. /\ n \in 0..r /\ a = n + b /\ (n < r => b = 0 /\ w > 0) /\ (w > 0 => r = n + w)
        /\ \A i \in 1..n : wsResults[i] = arrivals[i]
        /\ \A j \in 1..b : arrivals[n + j] = wsBuffer[j]
        /\ \A k \in 1..w : waiters[k] = n + k
        /\ \A i \in (n + 1)..r : w > 0 => wsResults[i] = Pending
    BY <1>1, <2>3 DEF ServedFirst
  <2> HIDE DEF x
  <2>6. ASSUME arrivals' = Append(arrivals, x)
        PROVE  /\ arrivals' \in Seq(Nat \ {0}) /\ Len(arrivals') = a + 1
               /\ arrivals'[a + 1] = x /\ \A i \in 1..a : arrivals'[i] = arrivals[i]
    BY <1>2, <2>4, <2>6, AppendProperties DEF WsTypes
  <2>7. CASE /\ waiters # <<>> /\ wsResults' = Settle(<<Head(waiters)>>, x) /\ waiters' = Tail(waiters)
             /\ arrivals' = Append(arrivals, x) /\ UNCHANGED <<readyState, wsBuffer, wsClosed, closeError>>
    <3>1. w > 0 /\ waiters \in Seq(Nat)
      BY <1>2, <1>3, <2>7 DEF WsTypes
    <3>2. Head(waiters) = n + 1
      <4>1. Head(waiters) = waiters[1] /\ 1 \in 1..w
        BY <2>4, <3>1
      <4> QED
        BY <2>5, <4>1
    <3>3. /\ waiters' \in Seq(Nat) /\ Len(waiters') = w - 1
          /\ \A k \in 1..(w - 1) : waiters'[k] = waiters[k + 1]
      <4>1. /\ waiters' \in Seq(Nat) /\ Len(waiters') = w - 1
            /\ \A k \in 1..Len(waiters') : waiters'[k] = waiters[k + 1]
        BY <2>7, <3>1, HeadTailProperties
      <4> QED
        BY <4>1
    <3>4. wsResults' = [i \in 1..r |-> IF i = n + 1 THEN x ELSE wsResults[i]]
      <4> DEFINE calls == <<Head(waiters)>>
      <4>1. DOMAIN wsResults = 1..r
        BY <1>2, WsLengths
      <4>2. \A i : (\E k \in DOMAIN calls : calls[k] = i) <=> i = n + 1
        BY <3>2
      <4>3. wsResults' = Settle(calls, x)
        BY <2>7
      <4> HIDE DEF calls, r
      <4> QED
        BY <4>1, <4>2, <4>3 DEF Settle
    <3>5. \A i \in 1..r : wsResults[i] \in Int
      BY <1>2, ElementOfSeq DEF WsTypes
    <3> HIDE DEF r, w, b, a
    <3>6. wsResults' \in Seq(Int) /\ Len(wsResults') = r
      <4>1. wsResults' \in [1..r -> Int]
        BY <2>4, <3>4, <3>5
      <4> QED
        BY <2>4, <4>1, SeqDef, LenProperties
    <3>7. b = 0 /\ a = n /\ r = n + w /\ n + 1 \in 1..r
      BY <2>4, <2>5, <3>1
    <3>8. \A i \in 1..(n + 1) : wsResults'[i] = arrivals'[i]
      <4> SUFFICES ASSUME NEW i \in 1..(n + 1) PROVE wsResults'[i] = arrivals'[i]
        OBVIOUS
      <4>1. i \in 1..r /\ (i = n + 1 \/ (i \in 1..n /\ i # n + 1 /\ i \in 1..a))
        BY <2>4, <3>7
      <4>2. arrivals'[n + 1] = x /\ \A j \in 1..a : arrivals'[j] = arrivals[j]
        BY <2>6, <2>7, <3>7
      <4> QED
        BY <2>5, <3>4, <4>1, <4>2
    <3>9. \A i \in (n + 2)..r : wsResults'[i] = Pending
      BY <2>4, <2>5, <3>1, <3>4, <3>7
    <3>10. \A k \in 1..(w - 1) : waiters'[k] = (n + 1) + k
      <4> SUFFICES ASSUME NEW k \in 1..(w - 1) PROVE waiters'[k] = (n + 1) + k
        OBVIOUS
      <4>1. k + 1 \in 1..w /\ n + (k + 1) = (n + 1) + k
        BY <2>4, <3>1
      <4> QED
        BY <2>5, <3>3, <4>1
    <3>11. Len(arrivals') = a + 1
      BY <2>6, <2>7
    <3>12. Len(wsBuffer') = 0
      BY <2>7, <3>7 DEF b
    <3>13. \A i \in ((n + 1) + 1)..r : i \in (n + 2)..r /\ w - 1 > 0
      BY <2>4, <3>1, <3>7
    <3>14. ServedFirst(n + 1)'
      <4>1. n + 1 \in 0..Len(wsResults') /\ Len(arrivals') = (n + 1) + Len(wsBuffer')
        BY <2>4, <3>6, <3>7, <3>11, <3>12
      <4>2. \A j \in 1..Len(wsBuffer') : FALSE
        BY <3>12
      <4>3. \A i \in ((n + 1) + 1)..Len(wsResults') : wsResults'[i] = Pending /\ Len(waiters') > 0
        BY <3>3, <3>6, <3>9, <3>13
      <4>4. \A k \in 1..Len(waiters') : waiters'[k] = (n + 1) + k
        BY <3>3, <3>10
      <4>5. Len(waiters') > 0 => Len(wsResults') = (n + 1) + Len(waiters') /\ ~wsClosed'
        <5>1. Len(wsResults') = (n + 1) + Len(waiters')
          BY <2>4, <3>3, <3>6, <3>7
        <5>2. ~wsClosed'
          BY <2>3, <2>7
        <5> QED
          BY <5>1, <5>2
      <4>6. n + 1 < Len(wsResults') => Len(wsBuffer') = 0 /\ Len(waiters') > 0
        BY <2>4, <3>3, <3>6, <3>7, <3>12
      <4> QED
        BY <3>8, <4>1, <4>2, <4>3, <4>4, <4>5, <4>6 DEF ServedFirst
    <3>15. WsTypes'
      BY <1>2, <2>1, <2>2, <2>6, <2>7, <3>3, <3>6 DEF WsTypes
    <3>16. EndsTogether'
      BY <1>2, <2>1, <2>7 DEF EndsTogether
    <3>17. n + 1 \in Nat
      OBVIOUS
    <3> QED
      BY <3>14, <3>15, <3>16, <3>17 DEF WsInv
  <2>8. CASE /\ waiters = <<>> /\ wsBuffer' = Append(wsBuffer, x) /\ arrivals' = Append(arrivals, x)
             /\ UNCHANGED <<readyState, waiters, wsResults, wsClosed, closeError>>
    <3>1. w = 0 /\ n = r
      BY <1>3, <2>4, <2>5, <2>8
    <3>2. /\ wsBuffer' \in Seq(Nat \ {0}) /\ Len(wsBuffer') = b + 1
          /\ wsBuffer'[b + 1] = x /\ \A i \in 1..b : wsBuffer'[i] = wsBuffer[i]
      BY <1>2, <2>4, <2>8, AppendProperties DEF WsTypes
    <3> HIDE DEF r, w, b, a
    <3>3. \A j \in 1..(b + 1) : arrivals'[n + j] = wsBuffer'[j]
      <4> SUFFICES ASSUME NEW j \in 1..(b + 1) PROVE arrivals'[n + j] = wsBuffer'[j]
        OBVIOUS
      <4>1. CASE j = b + 1
        <5>1. n + j = a + 1
          BY <2>4, <2>5, <4>1
        <5> QED
          BY <2>6, <2>8, <3>2, <4>1, <5>1
      <4>2. CASE j \in 1..b
        <5>1. n + j \in 1..a
          BY <2>4, <2>5, <4>2
        <5> QED
          BY <2>5, <2>6, <2>8, <3>2, <4>2, <5>1
      <4> QED
        BY <2>4, <4>1, <4>2
    <3>4. \A i \in 1..n : wsResults'[i] = arrivals'[i]
      BY <2>4, <2>5, <2>6, <2>8
    <3>5. Len(arrivals') = n + (b + 1)
      BY <2>4, <2>5, <2>6, <2>8
    <3>6. Len(wsResults') = n /\ Len(waiters') = 0
      BY <2>8, <3>1 DEF r, w
    <3>7. ServedFirst(n)'
      BY <3>2, <3>3, <3>4, <3>5, <3>6 DEF ServedFirst
    <3>8. WsTypes'
      BY <1>2, <2>1, <2>2, <2>6, <2>8, <3>2 DEF WsTypes
    <3>9. EndsTogether'
      BY <1>2, <2>1, <2>8 DEF EndsTogether
    <3> QED
      BY <3>7, <3>8, <3>9 DEF WsInv
  <2>9. CASE FailAll /\ readyState' = "closing" /\ UNCHANGED <<wsBuffer, arrivals>>
    BY <1>7, <2>1, <2>3, <2>9 DEF FailAll
  <2> QED
    BY <1>16, <2>7, <2>8, <2>9 DEF OnMessage, frame, x
<1> QED
  BY <1>8, <1>9, <1>10, <1>11, <1>12, <1>13, <1>14, <1>15, <1>16 DEF WebSocketNext

\* What the invariant says of the calls.
LEMMA WsInvOrders == WsInv => WsInOrder
<1> SUFFICES ASSUME WsInv PROVE WsInOrder
  OBVIOUS
<1>1. PICK n \in Nat : ServedFirst(n)
  BY DEF WsInv
<1>2. WsTypes /\ EndsTogether
  BY DEF WsInv
<1> DEFINE r == Len(wsResults)
           b == Len(wsBuffer)
           first == SubSeq(wsResults, 1, n)
<1>3. r \in Nat /\ b \in Nat /\ DOMAIN wsResults = 1..r /\ DOMAIN wsSends = 1..Len(wsSends)
  BY <1>2, WsLengths
<1>4. n \in 0..r
  BY <1>1 DEF ServedFirst
<1>5. first \o wsBuffer = arrivals
  <2>1. first \in Seq(Int) /\ Len(first) = n /\ \A i \in 1..n : first[i] = wsResults[i]
    <3>1. wsResults \in Seq(Int) /\ 1 \in 1..(r + 1) /\ n \in (1 - 1)..r
      BY <1>2, <1>3, <1>4 DEF WsTypes
    <3>2. /\ first \in Seq(Int) /\ Len(first) = n - 1 + 1
          /\ \A i \in 1..(n - 1 + 1) : first[i] = wsResults[1 + i - 1]
      BY <3>1, SubSeqProperties
    <3>3. n - 1 + 1 = n /\ \A i \in 1..n : 1 + i - 1 = i
      OBVIOUS
    <3> QED
      BY <3>2, <3>3
  <2>2. wsBuffer \in Seq(Int) /\ arrivals \in Seq(Int)
    BY <1>2 DEF WsTypes
  <2> DEFINE both == first \o wsBuffer
  <2> HIDE DEF first
  <2>3. /\ both \in Seq(Int) /\ Len(both) = n + b
        /\ \A i \in 1..(n + b) : both[i] = IF i <= n THEN first[i] ELSE wsBuffer[i - n]
    <3>1. /\ both \in Seq(Int) /\ Len(both) = Len(first) + Len(wsBuffer)
          /\ \A i \in 1..(Len(first) + Len(wsBuffer)) :
               both[i] = IF i <= Len(first) THEN first[i] ELSE wsBuffer[i - Len(first)]
      BY <2>1, <2>2, ConcatProperties
    <3> QED
      BY <2>1, <3>1
  <2> HIDE DEF both, b
  <2>4. /\ Len(arrivals) = n + b
        /\ \A i \in 1..n : wsResults[i] = arrivals[i]
        /\ \A j \in 1..b : arrivals[n + j] = wsBuffer[j]
    BY <1>1 DEF ServedFirst, b
  <2>5. ASSUME NEW i \in 1..(n + b) PROVE both[i] = arrivals[i]
    <3>1. CASE i <= n
      <4>1. i \in 1..n
        BY <3>1
      <4>2. both[i] = first[i]
        BY <2>3, <3>1
      <4> QED
        BY <2>1, <2>4, <4>1, <4>2
    <3>2. CASE ~(i <= n)
      <4>1. b \in Nat
        BY <1>3 DEF b
      <4>2. i - n \in 1..b /\ n + (i - n) = i
        BY <3>2, <4>1
      <4>3. both[i] = wsBuffer[i - n]
        BY <2>3, <3>2
      <4>4. arrivals[n + (i - n)] = wsBuffer[i - n]
        BY <2>4, <4>2
      <4> QED
        BY <4>2, <4>3, <4>4
    <3> QED
      BY <3>1, <3>2
  <2>6. both = arrivals
    BY <2>2, <2>3, <2>4, <2>5, SeqEqual
  <2> QED
    BY <2>6 DEF both
<1>6. \A i \in 1..r : i \in 1..n \/ i \in (n + 1)..r
  BY <1>3, <1>4
<1>7. \A i \in 1..n : wsResults[i] \in Nat \ {0}
  <2>1. \A i \in 1..n : i \in 1..Len(arrivals) /\ wsResults[i] = arrivals[i]
    <3>1. Len(arrivals) = n + b /\ \A i \in 1..n : wsResults[i] = arrivals[i]
      BY <1>1 DEF ServedFirst
    <3> HIDE DEF b
    <3>2. \A i \in 1..n : i \in 1..Len(arrivals)
      BY <1>3, <3>1 DEF b
    <3> QED
      BY <3>1, <3>2
  <2> QED
    BY <1>2, <2>1, WsLengths
<1>8. \E e \in {Pending, Null, Rejected} : \A i \in (n + 1)..r : wsResults[i] = e
  BY <1>1 DEF ServedFirst
<1>9. /\ \A i \in 1..r : wsResults[i] > 0 => i <= n
      /\ \A i, j \in 1..r : i < j /\ ~(wsResults[i] > 0) => wsResults[j] = wsResults[i]
  BY <1>3, <1>4, <1>6, <1>7, <1>8 DEF Pending, Null, Rejected
<1>10. (\E i \in 1..r : IsEnd(wsResults[i])) => b = 0
  <2>1. \A i \in 1..n : ~IsEnd(wsResults[i])
    BY <1>7 DEF IsEnd, Null, Rejected
  <2>2. n < r => b = 0
    BY <1>1 DEF ServedFirst
  <2> QED
    BY <1>3, <1>4, <1>6, <2>1, <2>2
<1>11. \A i, j \in 1..Len(wsSends) : i < j /\ wsSends[i] # "sent" => wsSends[j] # "sent"
  BY <1>2 DEF EndsTogether
<1>12. b = 0 => wsBuffer = <<>>
  BY <1>2, WsLengths
<1>13. \A i \in 1..r : (wsResults[i] = Pending \/ IsEnd(wsResults[i])) => ~(wsResults[i] > 0)
  BY DEF IsEnd, Pending, Null, Rejected
<1>14. \E m \in 0..r : /\ SubSeq(wsResults, 1, m) \o wsBuffer = arrivals
                       /\ \A i \in 1..r : wsResults[i] > 0 => i <= m
  BY <1>4, <1>5, <1>9
<1> HIDE DEF r
<1>15. \A i, j \in 1..r : i < j =>
         /\ wsResults[i] = Pending => wsResults[j] = Pending
         /\ IsEnd(wsResults[i]) => wsResults[j] = wsResults[i]
  BY <1>9, <1>13
<1> QED
  BY <1>3, <1>10, <1>11, <1>12, <1>14, <1>15 DEF WsInOrder, r

LEMMA WsInvInit == WebSocketInit => WsInv
<1> SUFFICES ASSUME WebSocketInit PROVE WsInv
  OBVIOUS
<1>1. /\ dialing = "idle" /\ readyState = "none" /\ wsFrames = 0 /\ wsWire = <<>> /\ wsBuffer = <<>>
      /\ waiters = <<>> /\ wsClosed = FALSE /\ closeError = FALSE /\ wsResults = <<>>
      /\ wsSends = <<>> /\ arrivals = <<>>
  BY DEF WebSocketInit
<1>2. WsTypes
  BY <1>1, EmptySeq DEF WsTypes
<1>3. /\ Len(wsResults) = 0 /\ Len(wsBuffer) = 0 /\ Len(arrivals) = 0 /\ Len(waiters) = 0
      /\ Len(wsSends) = 0
  BY <1>1, EmptySeq
<1>4. EndsTogether
  <2>1. \A i \in 1..Len(wsSends) : FALSE
    BY <1>3
  <2> QED
    BY <1>1, <1>3, <2>1 DEF EndsTogether
<1>5. ServedFirst(0)
  <2>1. /\ \A i \in 1..0 : FALSE
        /\ \A i \in (0 + 1)..0 : FALSE
    OBVIOUS
  <2> QED
    BY <1>3, <2>1 DEF ServedFirst
<1> QED
  BY <1>2, <1>4, <1>5 DEF WsInv

\* Induction on the numbers up to n, for a set that stands for a property.
LEMMA CountingUp ==
  ASSUME NEW n \in Nat, NEW S, 0 \in S, \A k \in 0..(n - 1) : k \in S => k + 1 \in S
  PROVE  \A k \in 0..n : k \in S
<1> DEFINE Below == {p \in Nat \X Nat : p[1] < p[2]}
           Bad == {k \in 0..n : k \notin S}
<1>1. IsWellFoundedOn(Below, Nat)
  BY NatLessThanWellFounded DEF OpToRel
<1>2. \A x, y \in Nat : y < x => <<y, x>> \in Below
  OBVIOUS
<1> HIDE DEF Below
<1>3. SUFFICES ASSUME Bad # {} PROVE FALSE
  OBVIOUS
<1>4. Bad \in SUBSET Nat
  OBVIOUS
<1>5. PICK k \in Bad : \A y \in Bad : ~(<<y, k>> \in Below)
  BY <1>1, <1>3, <1>4, WFMin
<1>6. k \in 0..n /\ k # 0 /\ k \notin S
  BY <1>5
<1>7. k - 1 \in 0..(n - 1) /\ k - 1 \in 0..n /\ (k - 1) + 1 = k /\ <<k - 1, k>> \in Below
  BY <1>2, <1>6
<1>8. k - 1 \in S
  BY <1>5, <1>7
<1> QED
  BY <1>6, <1>7, <1>8
-----------------------------------------------------------------------------
(* The HTTP/2 reader returns the messages that arrive, in order *)

Tokens == [kind : {"data", "rest", "LF", "CR", "ignored"}, m : Nat, line : Nat]

\* A token of the stream, and where it leaves a reader: m messages are over, of
\* the next one d data lines are, and of the next line "at" tokens have come; 3
\* stands for the token of a line without data.
Places == [tok : Tokens, m : Nat, d : {0, 1}, at : 0..3]
Place(tok, m, d, at) == [tok |-> tok, m |-> m, d |-> d, at |-> at]

\* What the server may write next, when a message is one data line.
Follows(x, y) ==
  \/ /\ x.d = 0
     /\ \/ x.at = 0 /\ y = Place(Token("data", x.m + 1, 1), x.m, 0, 1)
        \/ x.at = 1 /\ y = Place(Token("rest", x.m + 1, 1), x.m, 0, 2)
        \/ x.at = 2 /\ y = Place(Token("LF", x.m + 1, 1), x.m, 1, 0)
        \/ x.at = 0 /\ y \in {Place(CR, x.m, 0, 3), Place(Ignored, x.m, 0, 3)}
        \/ x.at = 3 /\ y = Place(LF, x.m, 0, 0)
  \/ x.d = 1 /\ x.at = 0 /\ y = Place(LF, x.m + 1, 0, 0)

Chain(w) ==
  /\ w \in Seq(Places) /\ Len(w) > 0
  /\ \A k \in 1..(Len(w) - 1) : Follows(w[k], w[k + 1])

\* The messages whose data line is over.
Arrived(x) == x.m + x.d

CountsAsOne(tok) == tok.kind = "LF" /\ tok.line = 1

LEMMA ChainTypes ==
  ASSUME NEW w, Chain(w)
  PROVE  /\ Len(w) \in Nat \ {0}
         /\ \A k \in 1..Len(w) : w[k] \in Places /\ w[k].tok \in Tokens /\ w[k].m \in Nat
                                 /\ w[k].d \in {0, 1} /\ w[k].at \in 0..3 /\ Arrived(w[k]) \in Nat
<1>1. Len(w) \in Nat \ {0}
  BY LenProperties DEF Chain
<1>2. \A k \in 1..Len(w) : w[k] \in Places
  BY ElementOfSeq DEF Chain
<1>3. \A x \in Places : x.tok \in Tokens /\ x.m \in Nat /\ x.d \in {0, 1} /\ x.at \in 0..3 /\ Arrived(x) \in Nat
  BY DEF Places, Arrived
<1> QED
  BY <1>1, <1>2, <1>3

\* One token on: only the end of a data line counts.
LEMMA ArrivedStep ==
  ASSUME NEW x \in Places, NEW y, Follows(x, y)
  PROVE  Arrived(y) = IF CountsAsOne(y.tok) THEN Arrived(x) + 1 ELSE Arrived(x)
<1>1. x.m \in Nat /\ x.d \in {0, 1}
  BY DEF Places
<1>2. CASE x.d = 1 /\ x.at = 0 /\ y = Place(LF, x.m + 1, 0, 0)
  BY <1>1, <1>2 DEF Arrived, CountsAsOne, Place, Token, LF
<1>3. CASE x.d = 0 /\ x.at = 0 /\ y = Place(Token("data", x.m + 1, 1), x.m, 0, 1)
  BY <1>1, <1>3 DEF Arrived, CountsAsOne, Place, Token
<1>4. CASE x.d = 0 /\ x.at = 1 /\ y = Place(Token("rest", x.m + 1, 1), x.m, 0, 2)
  BY <1>1, <1>4 DEF Arrived, CountsAsOne, Place, Token
<1>5. CASE x.d = 0 /\ x.at = 2 /\ y = Place(Token("LF", x.m + 1, 1), x.m, 1, 0)
  BY <1>1, <1>5 DEF Arrived, CountsAsOne, Place, Token
<1>6. CASE x.d = 0 /\ x.at = 0 /\ y \in {Place(CR, x.m, 0, 3), Place(Ignored, x.m, 0, 3)}
  BY <1>1, <1>6 DEF Arrived, CountsAsOne, Place, Token, CR, Ignored
<1>7. CASE x.d = 0 /\ x.at = 3 /\ y = Place(LF, x.m, 0, 0)
  BY <1>1, <1>7 DEF Arrived, CountsAsOne, Place, Token, LF
<1> QED
  BY <1>2, <1>3, <1>4, <1>5, <1>6, <1>7 DEF Follows

LEMMA ArrivedCounts ==
  ASSUME NEW w, Chain(w), NEW i \in 1..Len(w), NEW n \in 0..(Len(w) - i)
  PROVE  LET ends == {j \in 1..n : CountsAsOne(w[i + j].tok)} IN
         Cardinality(ends) \in Nat /\ Arrived(w[i + n]) = Arrived(w[i]) + Cardinality(ends)
<1> DEFINE ends(k) == {j \in 1..k : CountsAsOne(w[i + j].tok)}
           S == {k \in 0..n : IsFiniteSet(ends(k)) /\ Arrived(w[i + k]) = Arrived(w[i]) + Cardinality(ends(k))}
<1>1. /\ Len(w) \in Nat /\ n \in Nat
      /\ \A k \in 1..Len(w) : w[k] \in Places /\ Arrived(w[k]) \in Nat
  BY ChainTypes
<1>2. 0 \in S
  <2>1. ends(0) = {} /\ i + 0 = i
    OBVIOUS
  <2>2. IsFiniteSet(ends(0)) /\ Cardinality(ends(0)) = 0
    BY <2>1, FS_EmptySet
  <2> QED
    BY <1>1, <2>1, <2>2
<1>3. ASSUME NEW k \in 0..(n - 1), k \in S PROVE k + 1 \in S
  <2>1. k + 1 \in 0..n /\ i + k \in 1..(Len(w) - 1) /\ i + k \in 1..Len(w) /\ (i + k) + 1 = i + (k + 1)
    BY <1>1
  <2>2. Follows(w[i + k], w[i + (k + 1)])
    BY <2>1 DEF Chain
  <2>3. Arrived(w[i + (k + 1)]) = IF CountsAsOne(w[i + (k + 1)].tok) THEN Arrived(w[i + k]) + 1 ELSE Arrived(w[i + k])
    BY <1>1, <2>1, <2>2, ArrivedStep
  <2>4. IsFiniteSet(ends(k)) /\ Arrived(w[i + k]) = Arrived(w[i]) + Cardinality(ends(k))
    BY <1>3
  <2>5. Cardinality(ends(k)) \in Nat
    BY <2>4, FS_CardinalityType
  <2>6. \A j : j \in 1..(k + 1) <=> j \in 1..k \/ j = k + 1
    OBVIOUS
  <2>7. Arrived(w[i]) \in Nat
    BY <1>1
  <2>8. CASE CountsAsOne(w[i + (k + 1)].tok)
    <3>1. ends(k + 1) = ends(k) \cup {k + 1} /\ k + 1 \notin ends(k)
      <4>1. k + 1 \notin 1..k
        OBVIOUS
      <4> QED
        BY <2>6, <2>8, <4>1, Zenon
    <3> HIDE DEF ends
    <3>2. IsFiniteSet(ends(k + 1)) /\ Cardinality(ends(k + 1)) = Cardinality(ends(k)) + 1
      BY <2>4, <3>1, FS_AddElement
    <3> QED
      BY <2>1, <2>3, <2>4, <2>5, <2>7, <2>8, <3>2
  <2>9. CASE ~CountsAsOne(w[i + (k + 1)].tok)
    <3>1. ends(k + 1) = ends(k)
      BY <2>6, <2>9, Zenon
    <3> HIDE DEF ends
    <3> QED
      BY <2>1, <2>3, <2>4, <2>9, <3>1
  <2> QED
    BY <2>8, <2>9
<1> HIDE DEF S
<1>4. n \in S
  <2>1. \A k \in 0..n : k \in S
    BY <1>1, <1>2, <1>3, CountingUp
  <2> QED
    BY <1>1, <2>1
<1> QED
  BY <1>4, FS_CardinalityType DEF S

LEMMA ArrivedGrows ==
  ASSUME NEW w, Chain(w), NEW i \in 1..Len(w), NEW j \in i..Len(w)
  PROVE  /\ Arrived(w[i]) <= Arrived(w[j])
         /\ (\A k \in (i + 1)..j : w[k].tok.kind # "LF") => Arrived(w[j]) = Arrived(w[i])
<1> DEFINE n == j - i
           ends == {k \in 1..n : CountsAsOne(w[i + k].tok)}
<1>1. Len(w) \in Nat /\ n \in 0..(Len(w) - i) /\ i + n = j
  BY ChainTypes
<1>2. Arrived(w[i]) \in Nat /\ j \in 1..Len(w)
  BY <1>1, ChainTypes
<1>3. Cardinality(ends) \in Nat /\ Arrived(w[i + n]) = Arrived(w[i]) + Cardinality(ends)
  <2> HIDE DEF n
  <2> QED
    BY <1>1, ArrivedCounts
<1>4. ASSUME \A k \in (i + 1)..j : w[k].tok.kind # "LF" PROVE Cardinality(ends) = 0
  <2>1. \A k \in 1..n : i + k \in (i + 1)..j
    OBVIOUS
  <2>2. ends = {}
    BY <1>4, <2>1 DEF CountsAsOne
  <2> QED
    BY <2>2, FS_EmptySet
<1> HIDE DEF n, ends
<1>5. Arrived(w[j]) = Arrived(w[i]) + Cardinality(ends)
  BY <1>1, <1>3
<1> QED
  BY <1>2, <1>3, <1>4, <1>5

LEMMA LeastOfSome ==
  ASSUME NEW S \in SUBSET Nat, NEW x \in S
  PROVE  \E k \in S : \A j \in S : k <= j
<1> DEFINE Below == {p \in Nat \X Nat : p[1] < p[2]}
<1>1. IsWellFoundedOn(Below, Nat)
  BY NatLessThanWellFounded DEF OpToRel
<1>2. \A i, j \in Nat : i < j => <<i, j>> \in Below
  OBVIOUS
<1> HIDE DEF Below
<1>3. PICK k \in S : \A j \in S : ~(<<j, k>> \in Below)
  BY <1>1, WFMin
<1>4. \A j \in S : j \in Nat /\ k \in Nat /\ ~(j < k)
  BY <1>2, <1>3
<1>5. \A j \in S : k <= j
  BY <1>4
<1> QED
  BY <1>5

LEMMA LeastIs ==
  ASSUME NEW S \in SUBSET Nat, NEW x \in S, \A y \in S : x <= y
  PROVE  (CHOOSE k \in S : \A j \in S : k <= j) = x
<1> DEFINE c == CHOOSE k \in S : \A j \in S : k <= j
<1>1. c \in S /\ \A j \in S : c <= j
  BY Zenon
<1> HIDE DEF c
<1>2. c <= x /\ x <= c /\ c \in Nat /\ x \in Nat
  BY <1>1
<1>3. c = x
  BY <1>2
<1> QED
  BY <1>3 DEF c

LEMMA Suffix ==
  ASSUME NEW S, NEW s \in Seq(S), NEW k \in 0..Len(s)
  PROVE  LET t == SubSeq(s, k + 1, Len(s)) IN
         t \in Seq(S) /\ Len(t) = Len(s) - k /\ \A j \in 1..(Len(s) - k) : t[j] = s[k + j]
<1> DEFINE t == SubSeq(s, k + 1, Len(s))
           n == Len(s)
<1>1. n \in Nat /\ k \in Nat /\ k <= n
  BY LenProperties
<1>2. \A i \in (k + 1)..n : s[i] \in S
  BY <1>1, ElementOfSeq
<1> HIDE DEF n
<1>3. k + 1 \in Int /\ n \in Int
  BY <1>1
<1>4. /\ SubSeq(s, k + 1, n) \in Seq(S)
      /\ Len(SubSeq(s, k + 1, n)) = IF k + 1 <= n THEN n - (k + 1) + 1 ELSE 0
      /\ \A j \in 1..(n - (k + 1) + 1) : SubSeq(s, k + 1, n)[j] = s[(k + 1) + j - 1]
  BY <1>2, <1>3, SubSeqProperties
<1>5. n - (k + 1) + 1 = n - k /\ \A j \in 1..(n - k) : (k + 1) + j - 1 = k + j
  BY <1>1
<1>6. t = SubSeq(s, k + 1, n)
  BY DEF n
<1> HIDE DEF t
<1>7. t \in Seq(S) /\ Len(t) = n - k
  BY <1>1, <1>4, <1>5, <1>6
<1>8. \A j \in 1..(n - k) : t[j] = s[k + j]
  BY <1>4, <1>5, <1>6
<1> QED
  BY <1>7, <1>8 DEF t, n

LEMMA Prefix ==
  ASSUME NEW S, NEW s \in Seq(S), NEW k \in 0..Len(s)
  PROVE  LET t == SubSeq(s, 1, k) IN
         t \in Seq(S) /\ Len(t) = k /\ \A j \in 1..k : t[j] = s[j]
<1> DEFINE t == SubSeq(s, 1, k)
<1>1. Len(s) \in Nat /\ k \in Nat /\ k <= Len(s)
  BY LenProperties
<1>2. \A i \in 1..k : s[i] \in S
  BY <1>1, ElementOfSeq
<1>3. /\ t \in Seq(S)
      /\ Len(t) = IF 1 <= k THEN k - 1 + 1 ELSE 0
      /\ \A j \in 1..(k - 1 + 1) : t[j] = s[1 + j - 1]
  BY <1>1, <1>2, SubSeqProperties
<1>4. k - 1 + 1 = k /\ \A j \in 1..k : 1 + j - 1 = j
  BY <1>1
<1> HIDE DEF t
<1>5. Len(t) = k
  BY <1>1, <1>3
<1>6. \A j \in 1..k : t[j] = s[j]
  BY <1>3, <1>4
<1> QED
  BY <1>3, <1>5, <1>6 DEF t

\* The lines that a message of one line and a keepalive have.
LEMMA LineBefore ==
  ASSUME NEW s \in Seq(Tokens), NEW lf \in 1..Len(s)
  PROVE  LET text == WithoutCR(SubSeq(s, 1, lf - 1)) IN
         /\ lf = 1 => text = <<>>
         /\ lf = 2 /\ s[1] = CR => text = <<>>
         /\ lf = 2 /\ s[1] = Ignored => text = <<Ignored>>
         /\ lf = 3 /\ s[2].kind = "rest" => text = <<s[1], s[2]>>
<1> DEFINE t == SubSeq(s, 1, lf - 1)
<1>1. Len(s) \in Nat /\ lf - 1 \in 0..Len(s)
  BY LenProperties
<1>2. t \in Seq(Tokens) /\ Len(t) = lf - 1 /\ \A j \in 1..(lf - 1) : t[j] = s[j]
  <2> DEFINE k == lf - 1
  <2> HIDE DEF k
  <2>1. k \in 0..Len(s)
    BY <1>1 DEF k
  <2>2. SubSeq(s, 1, k) \in Seq(Tokens) /\ Len(SubSeq(s, 1, k)) = k /\ \A j \in 1..k : SubSeq(s, 1, k)[j] = s[j]
    BY <2>1, Prefix
  <2> QED
    BY <2>2 DEF k
<1> HIDE DEF t
<1>3. lf = 1 => t = <<>>
  BY <1>2, EmptySeq
<1>4. ASSUME lf = 2 PROVE t = <<s[1]>>
  <2>1. Len(t) = 1 /\ t[1] = s[1]
    BY <1>2, <1>4
  <2> QED
    BY <1>2, <2>1
<1>5. ASSUME lf = 3 PROVE t = <<s[1], s[2]>>
  <2>1. Len(t) = 2 /\ t[1] = s[1] /\ t[2] = s[2]
    BY <1>2, <1>5
  <2> QED
    BY <1>2, <2>1
<1>6. WithoutCR(<<>>) = <<>>
  BY DEF WithoutCR
<1>7. WithoutCR(<<CR>>) = <<>> /\ WithoutCR(<<Ignored>>) = <<Ignored>>
  <2>1. SubSeq(<<CR>>, 1, 0) = <<>>
    <3>1. <<CR>> \in Seq({CR}) /\ Len(<<CR>>) = 1
      OBVIOUS
    <3>2. Len(SubSeq(<<CR>>, 1, 0)) = 0 /\ SubSeq(<<CR>>, 1, 0) \in Seq({CR})
      BY <3>1, Prefix
    <3> QED
      BY <3>2, EmptySeq
  <2>2. Last(<<CR>>) = CR /\ Last(<<Ignored>>) = Ignored /\ Front(<<CR>>) = <<>>
    BY <2>1 DEF Last, Front
  <2>3. CR.kind = "CR" /\ Ignored.kind = "ignored" /\ <<CR>> # <<>> /\ <<Ignored>> # <<>>
    BY DEF CR, Ignored, Token
  <2> QED
    BY <2>2, <2>3 DEF WithoutCR
<1>8. s[2].kind = "rest" => WithoutCR(<<s[1], s[2]>>) = <<s[1], s[2]>>
  BY DEF WithoutCR, Last
<1>9. /\ lf = 1 => WithoutCR(t) = <<>>
      /\ lf = 2 /\ s[1] = CR => WithoutCR(t) = <<>>
      /\ lf = 2 /\ s[1] = Ignored => WithoutCR(t) = <<Ignored>>
      /\ lf = 3 /\ s[2].kind = "rest" => WithoutCR(t) = <<s[1], s[2]>>
  BY <1>3, <1>4, <1>5, <1>6, <1>7, <1>8
<1> QED
  BY <1>9 DEF t

\* The tokens s are those that follow place g.
Window(s, w, g) == \A j \in 1..Len(s) : s[j] = w[g + j].tok

\* A message as the decoder has it, and what it has of one at a place, when n
\* messages were returned: flush may have returned the last one already.
Whole(m) == <<<<Token("data", m, 1), Token("rest", m, 1)>>>>

Kept(n, lines, x) ==
  \/ x.d = 0 /\ n = x.m /\ lines = <<>>
  \/ x.d = 1 /\ n = x.m /\ lines = Whole(n + 1)
  \/ x.d = 1 /\ n = x.m + 1 /\ lines = <<>>

\* The next line, by the place it starts at: where its LF is.
LEMMA NextLine ==
  ASSUME NEW w, Chain(w), NEW g \in 1..Len(w), w[g].at = 0,
         NEW s \in Seq(Tokens), g + Len(s) <= Len(w), Window(s, w, g),
         NEW lf \in 1..Len(s), s[lf].kind = "LF", \A j \in 1..(lf - 1) : s[j].kind # "LF"
  PROVE  LET text == WithoutCR(SubSeq(s, 1, lf - 1))
             x == w[g]
             y == w[g + lf] IN
         /\ y.at = 0
         /\ \/ text = <<>> /\ x.d = 1 /\ y.m = x.m + 1 /\ y.d = 0
            \/ text = <<>> /\ x.d = 0 /\ y.m = x.m /\ y.d = 0
            \/ text = <<Ignored>> /\ x.d = 0 /\ y.m = x.m /\ y.d = 0
            \/ text = <<Token("data", x.m + 1, 1), Token("rest", x.m + 1, 1)>> /\ x.d = 0 /\ y.m = x.m /\ y.d = 1
<1> DEFINE text == WithoutCR(SubSeq(s, 1, lf - 1))
           x == w[g]
           n == Len(s)
<1>1. Len(w) \in Nat /\ n \in Nat /\ lf \in Nat /\ lf >= 1 /\ lf <= n
  BY ChainTypes, LenProperties
<1>2. \A j \in 1..n : s[j] = w[g + j].tok
  BY DEF Window
<1>3. ASSUME NEW j \in 1..n PROVE Follows(w[g + (j - 1)], w[g + j])
  <2>1. g + (j - 1) \in 1..(Len(w) - 1) /\ (g + (j - 1)) + 1 = g + j
    BY <1>1
  <2> QED
    BY <2>1 DEF Chain
<1>4. /\ lf = 1 => text = <<>>
      /\ lf = 2 /\ s[1] = CR => text = <<>>
      /\ lf = 2 /\ s[1] = Ignored => text = <<Ignored>>
      /\ lf = 3 /\ s[2].kind = "rest" => text = <<s[1], s[2]>>
  BY LineBefore
<1>5. x.m \in Nat /\ x.d \in {0, 1}
  BY ChainTypes
<1>6. g + (1 - 1) = g /\ g + (2 - 1) = g + 1 /\ g + (3 - 1) = g + 2
  OBVIOUS
<1>7. \A j \in 1..n : j < lf => s[j].kind # "LF"
  BY <1>1
<1> HIDE DEF text, n
<1>8. 1 \in 1..n /\ s[1] = w[g + 1].tok /\ Follows(x, w[g + 1])
  <2>1. 1 \in 1..n
    BY <1>1
  <2> QED
    BY <1>2, <1>3, <1>6, <2>1
<1>9. CASE x.d = 1
  <2>1. w[g + 1] = Place(LF, x.m + 1, 0, 0)
    BY <1>8, <1>9 DEF Follows
  <2>2. s[1].kind = "LF" /\ lf = 1
    <3>1. s[1].kind = "LF"
      BY <1>8, <2>1 DEF Place, LF, Token
    <3> QED
      BY <1>1, <1>7, <1>8, <3>1
  <2> QED
    BY <1>4, <1>5, <1>9, <2>1, <2>2 DEF Place, text
<1>10. CASE x.d = 0 /\ w[g + 1] = Place(Token("data", x.m + 1, 1), x.m, 0, 1)
  <2>1. s[1] = Token("data", x.m + 1, 1) /\ w[g + 1].d = 0 /\ w[g + 1].at = 1 /\ w[g + 1].m = x.m
    BY <1>8, <1>10 DEF Place
  <2>2. lf # 1 /\ 2 \in 1..n
    <3>1. lf # 1
      BY <2>1 DEF Token
    <3> QED
      BY <1>1, <3>1
  <2>3. s[2] = w[g + 2].tok /\ Follows(w[g + 1], w[g + 2])
    BY <1>2, <1>3, <1>6, <2>2
  <2>4. w[g + 2] = Place(Token("rest", x.m + 1, 1), x.m, 0, 2)
    BY <2>1, <2>3 DEF Follows
  <2>5. s[2] = Token("rest", x.m + 1, 1) /\ w[g + 2].d = 0 /\ w[g + 2].at = 2 /\ w[g + 2].m = x.m
    BY <2>3, <2>4 DEF Place
  <2>6. lf # 2 /\ 3 \in 1..n
    <3>1. lf # 2
      BY <2>5 DEF Token
    <3> QED
      BY <1>1, <2>2, <3>1
  <2>7. s[3] = w[g + 3].tok /\ Follows(w[g + 2], w[g + 3])
    BY <1>2, <1>3, <1>6, <2>6
  <2>8. w[g + 3] = Place(Token("LF", x.m + 1, 1), x.m, 1, 0)
    BY <2>5, <2>7 DEF Follows
  <2>9. lf = 3
    <3>1. s[3].kind = "LF"
      BY <2>7, <2>8 DEF Place, Token
    <3> QED
      BY <1>1, <1>7, <2>2, <2>6, <3>1
  <2>10. s[2].kind = "rest"
    BY <2>5 DEF Token
  <2>11. text = <<Token("data", x.m + 1, 1), Token("rest", x.m + 1, 1)>>
    BY <1>4, <2>1, <2>5, <2>9, <2>10
  <2>12. w[g + lf].at = 0 /\ w[g + lf].m = x.m /\ w[g + lf].d = 1
    BY <2>8, <2>9 DEF Place
  <2> QED
    BY <1>10, <2>11, <2>12 DEF text
<1>11. CASE x.d = 0 /\ w[g + 1] \in {Place(CR, x.m, 0, 3), Place(Ignored, x.m, 0, 3)}
  <2>1. s[1] \in {CR, Ignored} /\ w[g + 1].d = 0 /\ w[g + 1].at = 3 /\ w[g + 1].m = x.m
    BY <1>8, <1>11 DEF Place
  <2>2. lf # 1 /\ 2 \in 1..n
    <3>1. lf # 1
      BY <2>1 DEF Token, CR, Ignored
    <3> QED
      BY <1>1, <3>1
  <2>3. s[2] = w[g + 2].tok /\ Follows(w[g + 1], w[g + 2])
    BY <1>2, <1>3, <1>6, <2>2
  <2>4. w[g + 2] = Place(LF, x.m, 0, 0)
    BY <2>1, <2>3 DEF Follows
  <2>5. lf = 2
    <3>1. s[2].kind = "LF"
      BY <2>3, <2>4 DEF Place, LF, Token
    <3> QED
      BY <1>1, <1>7, <2>2, <3>1
  <2> QED
    BY <1>4, <1>5, <1>11, <2>1, <2>4, <2>5 DEF Place, text
<1> QED
  BY <1>5, <1>8, <1>9, <1>10, <1>11 DEF Follows

LEMMA FirstLFIs ==
  ASSUME NEW s \in Seq(Tokens)
  PROVE  \/ FirstLF(s) = 0 /\ \A j \in 1..Len(s) : s[j].kind # "LF"
         \/ /\ FirstLF(s) \in 1..Len(s) /\ s[FirstLF(s)].kind = "LF"
            /\ \A j \in 1..(FirstLF(s) - 1) : s[j].kind # "LF"
<1> DEFINE lfs == {j \in 1..Len(s) : s[j].kind = "LF"}
<1>1. FirstLF(s) = IF lfs # {} THEN Min(lfs) ELSE 0
  BY Zenon DEF FirstLF, SelectInSeq
<1>2. Len(s) \in Nat /\ lfs \in SUBSET Nat
  BY LenProperties
<1>3. CASE lfs = {}
  BY <1>1, <1>3
<1>4. ASSUME NEW k \in lfs
      PROVE  FirstLF(s) \in lfs /\ \A j \in 1..(FirstLF(s) - 1) : s[j].kind # "LF"
  <2>1. \E l \in lfs : \A j \in lfs : l <= j
    <3> HIDE DEF lfs
    <3> QED
      BY <1>2, <1>4, LeastOfSome
  <2>2. Min(lfs) \in lfs /\ \A j \in lfs : Min(lfs) <= j
    <3> HIDE DEF lfs
    <3> QED
      BY <2>1, Zenon DEF Min
  <2> DEFINE lf == FirstLF(s)
  <2>3. lf \in lfs /\ \A j \in lfs : lf <= j
    BY <1>1, <1>4, <2>2
  <2> HIDE DEF lf
  <2>4. \A j \in 1..(lf - 1) : j \in 1..Len(s) /\ ~(lf <= j)
    BY <1>2, <2>3
  <2>5. \A j \in 1..(lf - 1) : s[j].kind # "LF"
    BY <2>3, <2>4
  <2> QED
    BY <2>3, <2>5 DEF lf
<1> QED
  BY <1>3, <1>4

\* The loop of SSEDecoder.next, on the tokens from place g to place e.
ReadTo(w, g, e, n, read) ==
  /\ read.buffer \in Seq(Tokens) /\ Len(read.buffer) = e - g
  /\ Window(read.buffer, w, g) /\ w[g].at = 0
  /\ \/ read.event = <<>> /\ Kept(n, read.lines, w[g])
     \/ read.event = Whole(n + 1) /\ read.lines = <<>> /\ Kept(n + 1, <<>>, w[g])

\* A turn of the loop when a line is complete.
LEMMA OneLineReads ==
  ASSUME NEW w, Chain(w), NEW g \in 1..Len(w), w[g].at = 0, NEW n \in Nat,
         NEW s \in Seq(Tokens), g + Len(s) <= Len(w), Window(s, w, g),
         NEW lines, Kept(n, lines, w[g]), NEW k \in 1..Len(s), s[k].kind = "LF"
  PROVE  \E lf \in 1..Len(s) :
           ReadTo(w, g + lf, g + Len(s), n, OneLine([event |-> <<>>, buffer |-> s, lines |-> lines]))
<1> DEFINE lf == FirstLF(s)
<1>1. Len(s) \in Nat
  BY LenProperties
<1>3. lf \in 1..Len(s) /\ s[lf].kind = "LF"
  BY FirstLFIs
<1>4. \A j \in 1..(lf - 1) : s[j].kind # "LF"
  BY FirstLFIs, <1>3
<1> DEFINE text == WithoutCR(SubSeq(s, 1, lf - 1))
           rest == SubSeq(s, lf + 1, Len(s))
           r0 == [event |-> <<>>, buffer |-> s, lines |-> lines]
           read == OneLine(r0)
<1>6. /\ read.event = IF text = <<>> THEN lines ELSE <<>>
      /\ read.buffer = rest
      /\ read.lines = IF text = <<>> THEN <<>>
                      ELSE IF Head(text).kind = "ignored" THEN lines ELSE Append(lines, text)
  <2>1. r0.event = <<>> /\ r0.buffer = s /\ r0.lines = lines
    OBVIOUS
  <2>2. lf # 0
    BY <1>1, <1>3
  <2> HIDE DEF r0
  <2>3. read = [event  |-> IF text = <<>> THEN lines ELSE <<>>,
                buffer |-> rest,
                lines  |-> IF text = <<>> THEN <<>>
                           ELSE IF Head(text).kind = "ignored" THEN lines ELSE Append(lines, text)]
    BY <2>1, <2>2, Zenon DEF OneLine
  <2> HIDE DEF text, rest, read, lf
  <2> QED
    BY <2>3
<1> HIDE DEF lf
<1>7. rest \in Seq(Tokens) /\ Len(rest) = Len(s) - lf /\ \A j \in 1..(Len(s) - lf) : rest[j] = s[lf + j]
  <2>1. lf \in 0..Len(s)
    BY <1>1, <1>3
  <2> HIDE DEF rest
  <2> QED
    BY <2>1, Suffix DEF rest
<1>8. Window(rest, w, g + lf)
  <2> SUFFICES ASSUME NEW j \in 1..Len(rest) PROVE rest[j] = w[(g + lf) + j].tok
    BY DEF Window
  <2> HIDE DEF rest
  <2>1. j \in 1..(Len(s) - lf) /\ lf + j \in 1..Len(s) /\ (g + lf) + j = g + (lf + j)
    <3>1. j \in 1..(Len(s) - lf)
      BY <1>7
    <3> DEFINE l == Len(s)
    <3>2. l \in Nat /\ lf \in 1..l /\ g \in Nat /\ j \in 1..(l - lf)
      BY <1>1, <1>3, <3>1
    <3> HIDE DEF l
    <3>3. lf + j \in 1..l /\ (g + lf) + j = g + (lf + j)
      BY <3>2
    <3> QED
      BY <3>1, <3>3 DEF l
  <2>2. s[lf + j] = w[g + (lf + j)].tok
    BY <2>1 DEF Window
  <2> QED
    BY <1>7, <2>1, <2>2
<1> DEFINE x == w[g]
           y == w[g + lf]
<1>9. /\ y.at = 0
      /\ \/ text = <<>> /\ x.d = 1 /\ y.m = x.m + 1 /\ y.d = 0
         \/ text = <<>> /\ x.d = 0 /\ y.m = x.m /\ y.d = 0
         \/ text = <<Ignored>> /\ x.d = 0 /\ y.m = x.m /\ y.d = 0
         \/ text = <<Token("data", x.m + 1, 1), Token("rest", x.m + 1, 1)>> /\ x.d = 0 /\ y.m = x.m /\ y.d = 1
  BY <1>3, <1>4, NextLine
<1>10. x.m \in Nat
  BY ChainTypes
<1>11. Kept(n, lines, x)
  OBVIOUS
<1> HIDE DEF text, rest, r0, read, x, y
<1>12. \/ read.event = <<>> /\ Kept(n, read.lines, y)
       \/ read.event = Whole(n + 1) /\ read.lines = <<>> /\ Kept(n + 1, <<>>, y)
  <2>1. CASE text = <<>> /\ x.d = 1 /\ y.m = x.m + 1 /\ y.d = 0
    <3>1. read.event = lines /\ read.lines = <<>>
      BY <1>6, <2>1
    <3> QED
      BY <1>10, <1>11, <2>1, <3>1 DEF Kept
  <2>2. CASE text = <<>> /\ x.d = 0 /\ y.m = x.m /\ y.d = 0
    <3>1. read.event = lines /\ read.lines = <<>>
      BY <1>6, <2>2
    <3> QED
      BY <1>10, <1>11, <2>2, <3>1 DEF Kept
  <2>3. CASE text = <<Ignored>> /\ x.d = 0 /\ y.m = x.m /\ y.d = 0
    <3>1. text # <<>> /\ Head(text).kind = "ignored"
      BY <2>3 DEF Ignored, Token
    <3>2. read.event = <<>> /\ read.lines = lines
      BY <1>6, <3>1
    <3> QED
      BY <1>10, <1>11, <2>3, <3>2 DEF Kept
  <2>4. CASE text = <<Token("data", x.m + 1, 1), Token("rest", x.m + 1, 1)>> /\ x.d = 0 /\ y.m = x.m /\ y.d = 1
    <3>1. text # <<>> /\ Head(text).kind # "ignored"
      BY <2>4 DEF Token
    <3>2. read.event = <<>> /\ read.lines = Append(lines, text)
      BY <1>6, <3>1
    <3>3. lines = <<>> /\ n = x.m
      BY <1>11, <2>4 DEF Kept
    <3>4. Append(<<>>, text) = <<text>>
      OBVIOUS
    <3>5. read.lines = Whole(n + 1)
      BY <2>4, <3>2, <3>3, <3>4 DEF Whole
    <3> QED
      BY <2>4, <3>2, <3>3, <3>5 DEF Kept
  <2> QED
    BY <1>9, <2>1, <2>2, <2>3, <2>4
<1>13. Len(rest) = (g + Len(s)) - (g + lf)
  BY <1>1, <1>3, <1>7
<1>14. ReadTo(w, g + lf, g + Len(s), n, read)
  BY <1>6, <1>7, <1>8, <1>9, <1>12, <1>13 DEF ReadTo, y
<1> QED
  BY <1>3, <1>14 DEF read, r0

Stuck(read) == read.event # <<>> \/ \A j \in 1..Len(read.buffer) : read.buffer[j].kind # "LF"

LEMMA OneTurn ==
  ASSUME NEW w, Chain(w), NEW e \in 1..Len(w), NEW g \in 1..e, NEW n \in Nat,
         NEW read, read = [event |-> read.event, buffer |-> read.buffer, lines |-> read.lines],
         ReadTo(w, g, e, n, read)
  PROVE  LET turn == OneLine(read) IN
         /\ turn = [event |-> turn.event, buffer |-> turn.buffer, lines |-> turn.lines]
         /\ \E h \in g..e : ReadTo(w, h, e, n, turn) /\ (Stuck(turn) \/ h > g)
         /\ Stuck(read) => turn = read
<1>1. Len(w) \in Nat /\ Len(read.buffer) \in Nat /\ read.buffer \in Seq(Tokens) /\ Len(read.buffer) = e - g
  BY ChainTypes, LenProperties DEF ReadTo
<1>2. Stuck(read) => OneLine(read) = read
  <2>1. read.event # <<>> => OneLine(read) = read
    BY Zenon DEF OneLine
  <2>2. ASSUME \A j \in 1..Len(read.buffer) : read.buffer[j].kind # "LF" PROVE OneLine(read) = read
    <3>1. FirstLF(read.buffer) = 0
      BY <1>1, <2>2, FirstLFIs
    <3> QED
      BY <3>1, Zenon DEF OneLine
  <2> QED
    BY <2>1, <2>2 DEF Stuck
<1>3. CASE Stuck(read)
  <2>1. g \in g..e
    BY <1>1
  <2> QED
    BY <1>2, <1>3, <2>1
<1>4. CASE ~Stuck(read)
  <2> DEFINE s == read.buffer
             lines == read.lines
             turn == OneLine(read)
  <2>1. /\ read.event = <<>> /\ s \in Seq(Tokens) /\ Window(s, w, g) /\ w[g].at = 0
        /\ Kept(n, lines, w[g])
    <3>1. read.event = <<>>
      BY <1>4 DEF Stuck
    <3>2. Whole(n + 1) # <<>>
      BY DEF Whole
    <3> QED
      BY <3>1, <3>2 DEF ReadTo
  <2>2. PICK k \in 1..Len(s) : s[k].kind = "LF"
    BY <1>4 DEF Stuck
  <2>3. read = [event |-> <<>>, buffer |-> s, lines |-> lines]
    BY <2>1
  <2>4. g \in 1..Len(w) /\ g + Len(s) <= Len(w)
    BY <1>1
  <2>5. turn = [event |-> turn.event, buffer |-> turn.buffer, lines |-> turn.lines]
    <3>1. FirstLF(s) # 0
      BY <2>1, <2>2, FirstLFIs
    <3>2. turn = [event  |-> turn.event, buffer |-> turn.buffer, lines  |-> turn.lines]
      BY <2>1, <3>1 DEF OneLine
    <3> QED
      BY <3>2
  <2>6. PICK lf \in 1..Len(s) :
          ReadTo(w, g + lf, g + Len(s), n, OneLine([event |-> <<>>, buffer |-> s, lines |-> lines]))
    <3> HIDE DEF s, lines
    <3> QED
      BY <2>1, <2>2, <2>4, OneLineReads
  <2>7. g + lf \in g..e /\ g + lf > g /\ g + Len(s) = e
    BY <1>1
  <2>8. ReadTo(w, g + lf, e, n, turn)
    BY <2>3, <2>6, <2>7
  <2>10. \E h \in g..e : ReadTo(w, h, e, n, turn) /\ (Stuck(turn) \/ h > g)
    BY <2>7, <2>8
  <2> QED
    BY <1>4, <2>5, <2>10 DEF turn
<1> QED
  BY <1>3, <1>4

\* What the loop has after each turn.
Turns(start, n, after) ==
  after = [i \in 0..n |-> IF i = 0 THEN {start} ELSE {OneLine(read) : read \in after[i - 1]}]

LEMMA TurnsExist ==
  ASSUME NEW start, NEW n \in Nat
  PROVE  \E after : Turns(start, n, after)
<1> DEFINE S == {k \in 0..n : \E after : Turns(start, k, after)}
<1>1. 0 \in S
  <2>1. Turns(start, 0, [i \in 0..0 |-> {start}])
    BY DEF Turns
  <2> QED
    BY <2>1
<1>2. ASSUME NEW k \in 0..(n - 1), k \in S PROVE k + 1 \in S
  <2>1. PICK after : Turns(start, k, after)
    BY <1>2
  <2> DEFINE value(f, i) == IF i = 0 THEN {start} ELSE {OneLine(read) : read \in f[i - 1]}
             more == [i \in 0..(k + 1) |-> value(after, i)]
  <2>2. after = [i \in 0..k |-> value(after, i)]
    BY <2>1, Zenon DEF Turns
  <2>3. \A i \in 0..k : more[i] = after[i]
    <3> HIDE DEF value
    <3>1. \A i \in 0..k : i \in 0..(k + 1) /\ after[i] = value(after, i)
      BY <2>2
    <3> QED
      BY <3>1
  <2>4. \A i \in 0..(k + 1) : value(after, i) = value(more, i)
    <3> HIDE DEF more
    <3>1. \A i \in 0..(k + 1) : i # 0 => i - 1 \in 0..k
      OBVIOUS
    <3> QED
      BY <2>3, <3>1
  <2>5. more = [i \in 0..(k + 1) |-> value(more, i)]
    <3> HIDE DEF value
    <3> QED
      BY <2>4
  <2>6. Turns(start, k + 1, more)
    BY <2>5, Zenon DEF Turns
  <2> QED
    BY <2>6
<1> HIDE DEF S
<1>3. n \in S
  BY <1>1, <1>2, CountingUp
<1> QED
  BY <1>3 DEF S

\* As many turns as the buffer has tokens are enough: an event, or no LF left.
LEMMA DecoderReads ==
  ASSUME NEW w, Chain(w), NEW g \in 1..Len(w), NEW e \in g..Len(w), NEW n \in Nat,
         NEW s \in Seq(Tokens), Len(s) = e - g, Window(s, w, g), w[g].at = 0,
         NEW lines, Kept(n, lines, w[g])
  PROVE  \E h \in g..e : ReadTo(w, h, e, n, DecoderNext(s, lines)) /\ Stuck(DecoderNext(s, lines))
<1> DEFINE start == [event |-> <<>>, buffer |-> s, lines |-> lines]
           t == e - g
           after == CHOOSE f : Turns(start, t, f)
           Good(i, read) == /\ read = [event |-> read.event, buffer |-> read.buffer, lines |-> read.lines]
                            /\ \E h \in g..e : ReadTo(w, h, e, n, read) /\ (Stuck(read) \/ h >= g + i)
           S == {i \in 0..t : after[i] # {} /\ \A read \in after[i] : Good(i, read)}
<1>1. Len(w) \in Nat /\ g \in Nat /\ e \in Nat /\ t \in Nat /\ e \in 1..Len(w)
  BY ChainTypes
<1>2. DecoderNext(s, lines) = CHOOSE read \in after[t] : TRUE
  <2>1. DecoderNext(s, lines) = CHOOSE read \in (CHOOSE f : Turns(start, Len(s), f))[Len(s)] : TRUE
    BY Zenon DEF DecoderNext, Turns
  <2>2. Len(s) = t
    OBVIOUS
  <2> QED
    BY <2>1, <2>2, Zenon
<1>3. Turns(start, t, after)
  <2> HIDE DEF start, t
  <2> QED
    BY <1>1, TurnsExist
<1> HIDE DEF after
<1>4. after[0] = {start} /\ \A i \in 1..t : after[i] = {OneLine(read) : read \in after[i - 1]}
  <2> HIDE DEF start, t
  <2>1. \A i \in 0..t : after[i] = IF i = 0 THEN {start} ELSE {OneLine(read) : read \in after[i - 1]}
    BY <1>3 DEF Turns
  <2>2. 0 \in 0..t /\ \A i \in 1..t : i \in 0..t /\ i # 0
    BY <1>1
  <2> QED
    BY <2>1, <2>2
<1>5. 0 \in S
  <2>1. ReadTo(w, g, e, n, start)
    BY DEF ReadTo
  <2>2. g \in g..e /\ g >= g + 0
    BY <1>1
  <2>3. Good(0, start)
    BY <2>1, <2>2
  <2> HIDE DEF Good, start, t
  <2>4. 0 \in 0..t
    BY <1>1
  <2>5. after[0] # {} /\ \A read \in after[0] : Good(0, read)
    BY <1>4, <2>3
  <2> QED
    BY <2>4, <2>5
<1>6. ASSUME NEW i \in 0..(t - 1), i \in S PROVE i + 1 \in S
  <2>1. i + 1 \in 1..t /\ i + 1 \in 0..t /\ (i + 1) - 1 = i
    BY <1>1
  <2>2. after[i + 1] = {OneLine(read) : read \in after[i]}
    BY <1>4, <2>1
  <2>3. after[i] # {} /\ \A read \in after[i] : Good(i, read)
    BY <1>6
  <2>4. ASSUME NEW read \in after[i] PROVE Good(i + 1, OneLine(read))
    <3>1. PICK h \in g..e : ReadTo(w, h, e, n, read) /\ (Stuck(read) \/ h >= g + i)
      BY <2>3, <2>4
    <3>2. read = [event |-> read.event, buffer |-> read.buffer, lines |-> read.lines]
      BY <2>3, <2>4
    <3> DEFINE turn == OneLine(read)
    <3>3. h \in 1..e
      BY <1>1
    <3>4. /\ turn = [event |-> turn.event, buffer |-> turn.buffer, lines |-> turn.lines]
          /\ \E l \in h..e : ReadTo(w, l, e, n, turn) /\ (Stuck(turn) \/ l > h)
          /\ Stuck(read) => turn = read
      BY <1>1, <3>1, <3>2, <3>3, OneTurn
    <3> HIDE DEF turn
    <3>5. PICK l \in h..e : ReadTo(w, l, e, n, turn) /\ (Stuck(turn) \/ l > h)
      BY <3>4
    <3>6. l \in g..e
      BY <1>1
    <3>7. Stuck(turn) \/ l >= g + (i + 1)
      <4>1. Stuck(read) => Stuck(turn)
        BY <3>1, <3>4, <3>5
      <4> QED
        BY <1>1, <3>1, <3>5, <4>1
    <3>8. Good(i + 1, turn)
      BY <3>4, <3>5, <3>6, <3>7
    <3> QED
      BY <3>8 DEF turn
  <2> HIDE DEF Good
  <2>5. after[i + 1] # {} /\ \A read \in after[i + 1] : Good(i + 1, read)
    BY <2>2, <2>3, <2>4
  <2> QED
    BY <2>1, <2>5
<1>7. t \in S
  <2> HIDE DEF S, t
  <2>1. \A i \in 0..t : i \in S
    BY <1>1, <1>5, <1>6, CountingUp
  <2> QED
    BY <1>1, <2>1
<1> DEFINE read == DecoderNext(s, lines)
<1>8. Good(t, read)
  <2>1. after[t] # {} /\ \A r \in after[t] : Good(t, r)
    BY <1>7
  <2> HIDE DEF Good, t
  <2>2. read \in after[t]
    BY <1>2, <2>1
  <2> QED
    BY <2>1, <2>2
<1>9. PICK h \in g..e : ReadTo(w, h, e, n, read) /\ (Stuck(read) \/ h >= g + t)
  BY <1>8
<1> HIDE DEF read
<1>10. Stuck(read)
  <2>1. CASE h >= g + t
    <3>1. Len(read.buffer) = e - h /\ e - h = 0
      BY <1>1, <1>9, <2>1 DEF ReadTo
    <3>2. \A j \in 1..Len(read.buffer) : FALSE
      BY <3>1
    <3> QED
      BY <3>2 DEF Stuck
  <2> QED
    BY <1>9, <2>1
<1> QED
  BY <1>9, <1>10 DEF read

LEMMA EncodeIs ==
  ASSUME LinesPerMessage = 1, NEW m \in Nat
  PROVE  EncodeSSE(m) = <<Token("data", m, 1), Token("rest", m, 1), Token("LF", m, 1), LF>>
<1> DEFINE lines == [i \in 1..1 |-> DataLine(m, i)]
           value(f, i) == IF i = 1 THEN lines[i] ELSE f[i - 1] \o lines[i]
           flat(f) == f = [i \in 1..1 |-> value(f, i)]
           first == DataLine(m, 1)
<1>1. lines = <<first>> /\ Len(lines) = 1 /\ lines[1] = first
  OBVIOUS
<1>2. FlattenSeq(lines) = (CHOOSE f : flat(f))[1]
  <2>1. Len(lines) # 0 /\ Len(lines) = 1
    BY <1>1
  <2>2. FlattenSeq(lines) = (CHOOSE f : f = [i \in 1..Len(lines) |-> value(f, i)])[Len(lines)]
    <3> HIDE DEF lines
    <3> QED
      BY <2>1, Zenon DEF FlattenSeq
  <2> HIDE DEF lines
  <2> QED
    BY <2>1, <2>2
<1>3. \E f : flat(f)
  <2> DEFINE g == [i \in 1..1 |-> first]
  <2>1. \A i \in 1..1 : value(g, i) = first
    BY <1>1
  <2>2. flat(g)
    BY <2>1
  <2> QED
    BY <2>2
<1> HIDE DEF flat
<1>4. flat(CHOOSE f : flat(f))
  BY <1>3
<1>5. (CHOOSE f : flat(f))[1] = first
  <2> DEFINE f == CHOOSE f : flat(f)
  <2> HIDE DEF f
  <2>1. f = [i \in 1..1 |-> value(f, i)]
    BY <1>4 DEF f, flat
  <2>2. f[1] = value(f, 1)
    BY <2>1
  <2>3. f[1] = first
    BY <1>1, <2>2
  <2> QED
    BY <2>3 DEF f
<1>6. EncodeSSE(m) = first \o <<LF>>
  BY <1>2, <1>5 DEF EncodeSSE
<1>7. first = <<Token("data", m, 1), Token("rest", m, 1), Token("LF", m, 1)>>
  BY DEF DataLine
<1>8. ASSUME NEW a, NEW b, NEW c, NEW d PROVE <<a, b, c>> \o <<d>> = <<a, b, c, d>>
  <2> DEFINE S == {a, b, c, d}
             s == <<a, b, c>>
             t == <<d>>
             u == s \o t
             v == <<a, b, c, d>>
  <2>1. v \in Seq(S) /\ Len(v) = 4 /\ v[1] = a /\ v[2] = b /\ v[3] = c /\ v[4] = d
    OBVIOUS
  <2>2. s \in Seq(S) /\ Len(s) = 3 /\ s[1] = a /\ s[2] = b /\ s[3] = c /\ t \in Seq(S) /\ Len(t) = 1 /\ t[1] = d
    OBVIOUS
  <2> HIDE DEF S, s, t, v
  <2>3. /\ u \in Seq(S) /\ Len(u) = Len(s) + Len(t)
        /\ \A i \in 1..(Len(s) + Len(t)) : u[i] = IF i <= Len(s) THEN s[i] ELSE t[i - Len(s)]
    BY <2>2, ConcatProperties
  <2> HIDE DEF u
  <2>4. Len(u) = 4 /\ u[1] = a /\ u[2] = b /\ u[3] = c /\ u[4] = d
    BY <2>2, <2>3
  <2>5. \A i \in 1..4 : u[i] = v[i]
    BY <2>1, <2>4
  <2>6. u = v
    BY <2>1, <2>3, <2>4, <2>5, SeqEqual
  <2> QED
    BY <2>6 DEF u, s, t, v
<1> HIDE DEF first
<1> QED
  BY <1>6, <1>7, <1>8, Zenon

LEMMA MessageOfWhole ==
  ASSUME LinesPerMessage = 1, NEW m \in Nat
  PROVE  MessageOf(Whole(m)) = m /\ Whole(m) # <<>>
<1> DEFINE half == <<Token("data", m, 1), Token("rest", m, 1)>>
<1>1. Front(DataLine(m, 1)) = half
  <2> DEFINE text == DataLine(m, 1)
             t == SubSeq(text, 1, 2)
  <2>1. text = <<Token("data", m, 1), Token("rest", m, 1), Token("LF", m, 1)>>
    BY DEF DataLine
  <2>2. text \in Seq(Tokens) /\ Len(text) = 3 /\ text[1] = Token("data", m, 1) /\ text[2] = Token("rest", m, 1)
    <3>1. \A kind \in {"data", "rest", "LF"} : Token(kind, m, 1) \in Tokens
      BY DEF Tokens, Token
    <3>2. \A a, b, c \in Tokens : <<a, b, c>> \in Seq(Tokens)
      OBVIOUS
    <3>3. \A a, b, c \in Tokens : Len(<<a, b, c>>) = 3 /\ <<a, b, c>>[1] = a /\ <<a, b, c>>[2] = b
      OBVIOUS
    <3> HIDE DEF text
    <3> QED
      BY <2>1, <3>1, <3>2, <3>3, Zenon
  <2> HIDE DEF text
  <2>3. t \in Seq(Tokens) /\ Len(t) = 2 /\ \A j \in 1..2 : t[j] = text[j]
    <3>1. 2 \in 0..Len(text)
      BY <2>2
    <3> QED
      BY <2>2, <3>1, Prefix
  <2>4. Front(text) = t
    BY <2>2 DEF Front
  <2> HIDE DEF t
  <2>5. t = half
    BY <2>2, <2>3
  <2> QED
    BY <2>4, <2>5 DEF text
<1>2. Whole(m) = <<half>> /\ Head(Whole(m))[1].m = m /\ Whole(m) # <<>>
  BY DEF Whole, Token
<1>3. [i \in 1..1 |-> Front(DataLine(m, i))] = <<half>>
  BY <1>1
<1> QED
  BY <1>2, <1>3 DEF MessageOf

LEMMA KeptCounts ==
  ASSUME NEW x \in Places, NEW n \in Nat, NEW lines, Kept(n, lines, x)
  PROVE  /\ n <= Arrived(x) /\ (lines = <<>> => n = Arrived(x))
         /\ lines # <<>> => lines = Whole(n + 1) /\ Kept(n + 1, <<>>, x)
<1>1. x.m \in Nat
  BY DEF Places
<1>2. Whole(n + 1) # <<>>
  BY DEF Whole
<1> QED
  BY <1>1, <1>2 DEF Kept, Arrived

\* One result changes.
LEMMA ResultChanges ==
  ASSUME NEW s \in Seq(Int), NEW i, NEW r \in Int
  PROVE  LET t == [s EXCEPT ![i] = r] IN
         /\ t \in Seq(Int) /\ DOMAIN t = DOMAIN s
         /\ \A k \in DOMAIN s : t[k] = r \/ t[k] = s[k]
<1>1. Len(s) \in Nat /\ s \in [1..Len(s) -> Int]
  BY LenProperties
<1>2. [s EXCEPT ![i] = r] \in [1..Len(s) -> Int]
  BY <1>1
<1>3. [s EXCEPT ![i] = r] \in Seq(Int)
  BY <1>1, <1>2, SeqDef
<1> QED
  BY <1>1, <1>3

-----------------------------------------------------------------------------

H2Types ==
  /\ stream \in Seq(Tokens) /\ decBuffer \in Seq(Tokens) /\ written \in Nat
  /\ returned \in Seq(Nat) /\ (\A i \in 1..Len(returned) : returned[i] = i) /\ h2Results \in Seq(Int)
  /\ h2Done \in BOOLEAN /\ h2Closed \in BOOLEAN /\ closedByUs \in BOOLEAN

\* w is what the server wrote, as far as it gets through: the decoder is at
\* place f, then come the tokens of its buffer and those not pulled yet.
Reader(w, f) ==
  /\ Chain(w) /\ f \in 1..Len(w) /\ w[f].at = 0
  /\ Len(w) = f + Len(decBuffer) + Len(stream)
  /\ Window(decBuffer, w, f) /\ Window(stream, w, f + Len(decBuffer))
  /\ Kept(Len(returned), dataLines, w[f])
  /\ pulled = Arrived(w[f + Len(decBuffer)])
  /\ streamEnd = "open" => w[Len(w)].m = written /\ w[Len(w)].d = 0 /\ w[Len(w)].at = 0

NullReturned == \E i \in DOMAIN h2Results : h2Results[i] = -1

\* What the reader's end says, unless close was called.
EndsSeen ==
  ~closedByUs =>
    /\ h2Done => streamEnd # "open" /\ stream = <<>>
    /\ h2Closed \/ NullReturned => h2Done /\ Len(returned) = pulled

H2Inv == H2Types /\ EndsSeen /\ \E w : \E f \in Nat : Reader(w, f)

\* A call reads on: with what it found in the buffer, or with what next() gave.
LEMMA ReadOnKeeps ==
  ASSUME LinesPerMessage = 1, H2Types, EndsSeen, NEW w, Chain(w), NEW f \in 1..Len(w), w[f].at = 0,
         NEW buffer \in Seq(Tokens), Window(buffer, w, f), Kept(Len(returned), dataLines, w[f]),
         stream' \in Seq(Tokens), Len(w) = f + Len(buffer) + Len(stream'),
         Window(stream', w, f + Len(buffer)), pulled' = Arrived(w[f + Len(buffer)]),
         streamEnd = "open" => w[Len(w)].m = written /\ w[Len(w)].d = 0 /\ w[Len(w)].at = 0,
         UNCHANGED <<streamEnd, written, closedByUs>>,
         NEW done \in BOOLEAN, ~closedByUs /\ done => streamEnd # "open" /\ stream' = <<>>,
         ~closedByUs /\ h2Done => done /\ pulled' = pulled,
         NEW results \in Seq(Int),
         (\E k \in DOMAIN results : results[k] = -1) => NullReturned,
         NEW i, NEW waiting, ReadOn(i, buffer, done, results, waiting)
  PROVE  H2Inv'
<1> DEFINE n == Len(returned)
           e == f + Len(buffer)
           read == DecoderNext(buffer, dataLines)
<1>1. /\ n \in Nat /\ Len(buffer) \in Nat /\ Len(stream') \in Nat /\ Len(w) \in Nat
      /\ e \in f..Len(w) /\ Len(buffer) = e - f
  <2>1. n \in Nat /\ Len(buffer) \in Nat /\ Len(stream') \in Nat /\ Len(w) \in Nat
    BY LenProperties, ChainTypes DEF H2Types
  <2> QED
    BY <2>1
<1>2. PICK h \in f..e : ReadTo(w, h, e, n, read) /\ Stuck(read)
  <2>1. Kept(n, dataLines, w[f])
    OBVIOUS
  <2> HIDE DEF n, e
  <2>2. \E h \in f..e : ReadTo(w, h, e, n, DecoderNext(buffer, dataLines)) /\ Stuck(DecoderNext(buffer, dataLines))
    BY <1>1, <2>1, DecoderReads
  <2> QED
    BY <2>2
<1>3. h \in 1..Len(w) /\ e \in 1..Len(w) /\ e \in h..Len(w) /\ w[h] \in Places /\ Arrived(w[h]) \in Nat
  <2>1. h \in 1..Len(w) /\ e \in 1..Len(w) /\ e \in h..Len(w)
    BY <1>1
  <2> QED
    BY <2>1, ChainTypes
<1>4. /\ decBuffer' = read.buffer /\ h2Done' = done
      /\ \/ /\ read.event # <<>> /\ dataLines' = read.lines /\ UNCHANGED h2Closed
            /\ h2Results' = [results EXCEPT ![i] = MessageOf(read.event)]
            /\ returned' = Append(returned, MessageOf(read.event))
         \/ /\ read.event = <<>> /\ done /\ dataLines' = <<>> /\ read.lines # <<>> /\ UNCHANGED h2Closed
            /\ h2Results' = [results EXCEPT ![i] = MessageOf(read.lines)]
            /\ returned' = Append(returned, MessageOf(read.lines))
         \/ /\ read.event = <<>> /\ done /\ dataLines' = <<>> /\ read.lines = <<>>
            /\ h2Results' = [results EXCEPT ![i] = -1] /\ h2Closed' = TRUE /\ UNCHANGED returned
         \/ /\ read.event = <<>> /\ ~done /\ dataLines' = read.lines /\ h2Results' = results
            /\ UNCHANGED <<h2Closed, returned>>
  BY DEF ReadOn
<1> HIDE DEF n, e, read
<1>5. /\ read.buffer \in Seq(Tokens) /\ Len(read.buffer) = e - h
      /\ Window(read.buffer, w, h) /\ w[h].at = 0
      /\ \/ read.event = <<>> /\ Kept(n, read.lines, w[h])
         \/ read.event = Whole(n + 1) /\ read.lines = <<>> /\ Kept(n + 1, <<>>, w[h])
  BY <1>2 DEF ReadTo
<1>6. Arrived(w[h]) <= pulled' /\ pulled' = Arrived(w[e]) /\ pulled' \in Nat
  <2>1. Arrived(w[h]) <= Arrived(w[e]) /\ Arrived(w[e]) \in Nat
    BY <1>3, ArrivedGrows, ChainTypes
  <2> QED
    BY <2>1 DEF e
\* Whatever the call found, when it is recorded as here the invariant holds.
<1>7. ASSUME NEW r \in Int, r # -1 \/ (h2Closed' /\ r = -1),
             h2Results' = results \/ h2Results' = [results EXCEPT ![i] = r],
             h2Closed' \in BOOLEAN, h2Closed' => h2Closed \/ (done /\ Len(returned') = pulled'),
             returned' \in Seq(Nat), \A j \in 1..Len(returned') : returned'[j] = j,
             Len(returned') \in Nat, Len(returned') >= n, Kept(Len(returned'), dataLines', w[h])
      PROVE  H2Inv'
  <2>1. /\ h2Results' \in Seq(Int)
        /\ (\E k \in DOMAIN h2Results' : h2Results'[k] = -1) => h2Closed' \/ NullReturned
    <3>1. CASE h2Results' = results
      BY <3>1
    <3>2. CASE h2Results' = [results EXCEPT ![i] = r]
      <4>1. /\ h2Results' \in Seq(Int) /\ DOMAIN h2Results' = DOMAIN results
            /\ \A k \in DOMAIN results : h2Results'[k] = r \/ h2Results'[k] = results[k]
        BY <3>2, ResultChanges
      <4> QED
        BY <1>7, <4>1
    <3> QED
      BY <1>7, <3>1, <3>2
  <2>2. H2Types'
    BY <1>4, <1>5, <1>7, <2>1 DEF H2Types
  <2>3. Reader(w, h)'
    <3>1. h + Len(decBuffer') = e
      BY <1>1, <1>3, <1>4, <1>5
    <3>2. Len(w) = h + Len(decBuffer') + Len(stream')
      BY <1>1, <3>1 DEF e
    <3>3. Window(decBuffer', w, h) /\ Window(stream', w, h + Len(decBuffer'))
      BY <1>4, <1>5, <3>1 DEF e
    <3>4. pulled' = Arrived(w[h + Len(decBuffer')])
      BY <1>6, <3>1
    <3>5. streamEnd' = "open" => w[Len(w)].m = written' /\ w[Len(w)].d = 0 /\ w[Len(w)].at = 0
      OBVIOUS
    <3>6. Window(decBuffer, w, h)' /\ Window(stream, w, h + Len(decBuffer))'
      BY <3>3 DEF Window
    <3> QED
      BY <1>3, <1>5, <1>7, <3>2, <3>4, <3>5, <3>6 DEF Reader
  <2>4. EndsSeen'
    <3> SUFFICES ASSUME ~closedByUs
                 PROVE  /\ done => streamEnd' # "open" /\ stream' = <<>>
                        /\ h2Closed' \/ NullReturned' => done /\ Len(returned') = pulled'
      BY <1>4 DEF EndsSeen
    <3>1. Len(returned') <= pulled'
      <4>1. Len(returned') <= Arrived(w[h])
        BY <1>3, <1>7, KeptCounts
      <4> QED
        BY <1>3, <1>6, <1>7, <4>1
    <3>2. h2Closed \/ NullReturned => done /\ Len(returned') = pulled'
      <4>1. h2Closed \/ NullReturned => h2Done /\ n = pulled
        BY DEF EndsSeen, n
      <4> QED
        BY <1>1, <1>6, <1>7, <3>1, <4>1
    <3>3. NullReturned' => h2Closed' \/ NullReturned
      BY <2>1 DEF NullReturned
    <3> QED
      BY <1>7, <3>2, <3>3
  <2>5. h \in Nat
    BY <1>3
  <2>6. \E v : \E g \in Nat : Reader(v, g)'
    BY <2>3, <2>5
  <2> QED
    BY <2>2, <2>4, <2>6 DEF H2Inv
\* A message, n + 1.
<1>8. ASSUME NEW lines, lines = Whole(n + 1), Kept(n + 1, <<>>, w[h]), dataLines' = <<>>, UNCHANGED h2Closed,
             h2Results' = [results EXCEPT ![i] = MessageOf(lines)], returned' = Append(returned, MessageOf(lines))
      PROVE  H2Inv'
  <2>1. MessageOf(lines) = n + 1
    BY <1>1, <1>8, MessageOfWhole
  <2>2. returned \in Seq(Nat) /\ \A j \in 1..n : returned[j] = j
    BY DEF H2Types, n
  <2>3. /\ returned' \in Seq(Nat) /\ Len(returned') = n + 1
        /\ returned'[n + 1] = n + 1 /\ \A j \in 1..n : returned'[j] = returned[j]
    BY <1>1, <1>8, <2>1, <2>2, AppendProperties DEF n
  <2>4. \A j \in 1..(n + 1) : returned'[j] = j
    <3>1. \A j \in 1..(n + 1) : j \in 1..n \/ j = n + 1
      BY <1>1
    <3> QED
      BY <2>2, <2>3, <3>1
  <2>5. n + 1 \in Int /\ n + 1 # -1 /\ n + 1 >= n
    BY <1>1
  <2>6. h2Closed' \in BOOLEAN /\ (h2Closed' => h2Closed)
    BY <1>8 DEF H2Types
  <2> DEFINE r == n + 1
  <2>7. h2Results' = [results EXCEPT ![i] = r] /\ Kept(Len(returned'), dataLines', w[h])
    BY <1>8, <2>1, <2>3
  <2>8. Len(returned') \in Nat /\ Len(returned') >= n /\ \A j \in 1..Len(returned') : returned'[j] = j
    <3>1. Len(returned') = n + 1
      BY <2>3
    <3>2. n + 1 \in Nat /\ n + 1 >= n
      BY <1>1
    <3> QED
      BY <2>4, <3>1, <3>2
  <2>9. r \in Int /\ r # -1
    BY <2>5
  <2> HIDE DEF r
  <2> QED
    BY <1>7, <2>3, <2>6, <2>7, <2>8, <2>9
\* No message.
<1>9. ASSUME UNCHANGED returned PROVE /\ returned' \in Seq(Nat) /\ (\A j \in 1..Len(returned') : returned'[j] = j)
                                      /\ Len(returned') = n
  BY <1>9 DEF H2Types, n
<1>10. CASE /\ read.event # <<>> /\ dataLines' = read.lines /\ UNCHANGED h2Closed
            /\ h2Results' = [results EXCEPT ![i] = MessageOf(read.event)]
            /\ returned' = Append(returned, MessageOf(read.event))
  BY <1>5, <1>8, <1>10
<1>11. CASE /\ read.event = <<>> /\ done /\ dataLines' = <<>> /\ read.lines # <<>> /\ UNCHANGED h2Closed
            /\ h2Results' = [results EXCEPT ![i] = MessageOf(read.lines)]
            /\ returned' = Append(returned, MessageOf(read.lines))
  <2>1. Kept(n, read.lines, w[h])
    BY <1>1, <1>5, <1>11, MessageOfWhole
  <2>2. read.lines = Whole(n + 1) /\ Kept(n + 1, <<>>, w[h])
    BY <1>1, <1>3, <1>11, <2>1, KeptCounts
  <2> QED
    BY <1>8, <1>11, <2>2
<1>12. CASE /\ read.event = <<>> /\ done /\ dataLines' = <<>> /\ read.lines = <<>>
            /\ h2Results' = [results EXCEPT ![i] = -1] /\ h2Closed' = TRUE /\ UNCHANGED returned
  <2>1. Kept(n, <<>>, w[h])
    BY <1>1, <1>5, <1>12, MessageOfWhole
  <2>2. n = Arrived(w[h])
    BY <1>1, <1>3, <2>1, KeptCounts
  <2>3. Arrived(w[e]) = Arrived(w[h])
    <3>1. \A j \in 1..Len(read.buffer) : read.buffer[j].kind # "LF"
      BY <1>2, <1>12 DEF Stuck
    <3>2. ASSUME NEW k \in (h + 1)..e PROVE w[k].tok.kind # "LF"
      <4>1. k - h \in 1..Len(read.buffer) /\ h + (k - h) = k
        BY <1>1, <1>3, <1>5
      <4>2. read.buffer[k - h] = w[h + (k - h)].tok
        BY <1>5, <4>1 DEF Window
      <4> QED
        BY <3>1, <4>1, <4>2
    <3> QED
      BY <1>3, <3>2, ArrivedGrows
  <2>4. Len(returned') = pulled' /\ Len(returned') = n
    BY <1>6, <1>9, <1>12, <2>2, <2>3
  <2>5. h2Closed' \in BOOLEAN /\ h2Closed' /\ -1 \in Int
    BY <1>12
  <2>6. Kept(Len(returned'), dataLines', w[h]) /\ Len(returned') \in Nat /\ Len(returned') >= n
    BY <1>1, <1>12, <2>1, <2>4
  <2> QED
    BY <1>7, <1>9, <1>12, <2>4, <2>5, <2>6
<1>13. CASE /\ read.event = <<>> /\ ~done /\ dataLines' = read.lines /\ h2Results' = results
            /\ UNCHANGED <<h2Closed, returned>>
  <2>1. Kept(n, read.lines, w[h])
    BY <1>1, <1>5, <1>13, MessageOfWhole
  <2>2. h2Closed' \in BOOLEAN /\ (h2Closed' => h2Closed)
    BY <1>13 DEF H2Types
  <2>3. Kept(Len(returned'), dataLines', w[h]) /\ Len(returned') \in Nat /\ Len(returned') >= n
    BY <1>1, <1>9, <1>13, <2>1
  <2>4. 0 \in Int /\ 0 # -1
    OBVIOUS
  <2> QED
    BY <1>7, <1>9, <1>13, <2>2, <2>3, <2>4
<1> QED
  BY <1>4, <1>10, <1>11, <1>12, <1>13

LEMMA Joining ==
  ASSUME NEW S, NEW s \in Seq(S), NEW t \in Seq(S)
  PROVE  /\ s \o t \in Seq(S) /\ Len(s \o t) = Len(s) + Len(t)
         /\ \A i \in 1..(Len(s) + Len(t)) : (s \o t)[i] = IF i <= Len(s) THEN s[i] ELSE t[i - Len(s)]
BY ConcatProperties

LEMMA ChainGrows ==
  ASSUME NEW w, Chain(w), NEW t \in Seq(Places), Len(t) > 0, Follows(w[Len(w)], t[1]),
         \A j \in 1..(Len(t) - 1) : Follows(t[j], t[j + 1])
  PROVE  /\ Chain(w \o t) /\ Len(w \o t) = Len(w) + Len(t)
         /\ \A k \in 1..Len(w) : (w \o t)[k] = w[k]
         /\ \A j \in 1..Len(t) : (w \o t)[Len(w) + j] = t[j]
<1> DEFINE v == w \o t
           a == Len(w)
           b == Len(t)
<1>1. a \in Nat \ {0} /\ b \in Nat \ {0} /\ w \in Seq(Places)
  BY ChainTypes, LenProperties DEF Chain
<1>2. v \in Seq(Places) /\ Len(v) = a + b /\ \A i \in 1..(a + b) : v[i] = IF i <= a THEN w[i] ELSE t[i - a]
  BY <1>1, Joining
<1>3. /\ \A k \in 1..(a - 1) : Follows(w[k], w[k + 1])
      /\ Follows(w[a], t[1]) /\ \A j \in 1..(b - 1) : Follows(t[j], t[j + 1])
  BY DEF Chain
<1> HIDE DEF v, a, b
<1>4. \A k \in 1..a : v[k] = w[k]
  <2> SUFFICES ASSUME NEW k \in 1..a PROVE v[k] = w[k]
    OBVIOUS
  <2>1. k \in 1..(a + b) /\ k <= a
    BY <1>1
  <2> QED
    BY <1>2, <2>1
<1>5. \A j \in 1..b : v[a + j] = t[j]
  <2> SUFFICES ASSUME NEW j \in 1..b PROVE v[a + j] = t[j]
    OBVIOUS
  <2>1. a + j \in 1..(a + b) /\ ~(a + j <= a) /\ (a + j) - a = j
    BY <1>1
  <2> QED
    BY <1>2, <2>1
<1>6. ASSUME NEW k \in 1..(a + b - 1) PROVE Follows(v[k], v[k + 1])
  <2>1. CASE k < a
    <3>1. k \in 1..(a - 1) /\ k \in 1..a /\ k + 1 \in 1..a
      BY <1>1, <2>1
    <3> QED
      BY <1>3, <1>4, <3>1
  <2>2. CASE k = a
    <3>1. a \in 1..a /\ 1 \in 1..b
      BY <1>1
    <3> QED
      BY <1>3, <1>4, <1>5, <2>2, <3>1
  <2>3. CASE k > a
    <3> DEFINE j == k - a
    <3>1. j \in 1..(b - 1) /\ j \in 1..b /\ j + 1 \in 1..b /\ k = a + j /\ k + 1 = a + (j + 1)
      BY <1>1, <2>3
    <3> HIDE DEF j
    <3>2. v[k] = t[j] /\ v[k + 1] = t[j + 1]
      BY <1>5, <3>1
    <3> QED
      BY <1>3, <3>1, <3>2
  <2> QED
    BY <1>1, <2>1, <2>2, <2>3
<1>7. Chain(v)
  <2>1. Len(v) > 0 /\ \A k \in 1..(Len(v) - 1) : Follows(v[k], v[k + 1])
    BY <1>1, <1>2, <1>6
  <2> QED
    BY <1>2, <2>1 DEF Chain
<1> QED
  BY <1>2, <1>4, <1>5, <1>7 DEF v, a, b

\* The server writes tokens that may follow the last one.
LEMMA ServerWrites ==
  ASSUME H2Inv, streamEnd = "open", NEW w, NEW f \in Nat, Reader(w, f),
         NEW t \in Seq(Places), NEW toks \in Seq(Tokens), Len(toks) = Len(t), Len(t) > 0,
         \A j \in 1..Len(t) : toks[j] = t[j].tok,
         Follows(w[Len(w)], t[1]), \A j \in 1..(Len(t) - 1) : Follows(t[j], t[j + 1]),
         stream' = stream \o toks, written' \in Nat, UNCHANGED <<streamEnd, readerVars, closedByUs>>,
         t[Len(t)].m = written', t[Len(t)].d = 0, t[Len(t)].at = 0
  PROVE  H2Inv'
<1> DEFINE v == w \o t
           a == Len(w)
           b == Len(t)
           s == Len(stream)
           u == Len(decBuffer)
           e == f + u
<1>1. H2Types /\ EndsSeen
  BY DEF H2Inv
<1>2. UNCHANGED <<decBuffer, dataLines, h2Done, h2Closed, h2Results, returned, pulled>>
  BY DEF readerVars
<1>3. /\ Chain(w) /\ f \in 1..a /\ w[f].at = 0 /\ a = e + s
      /\ Window(decBuffer, w, f) /\ Window(stream, w, e)
      /\ Kept(Len(returned), dataLines, w[f]) /\ pulled = Arrived(w[e])
  BY DEF Reader
<1>4. a \in Nat \ {0} /\ b \in Nat \ {0} /\ s \in Nat /\ u \in Nat
  BY <1>1, <1>3, ChainTypes, LenProperties DEF H2Types
<1>5. /\ Chain(v) /\ Len(v) = a + b /\ \A k \in 1..a : v[k] = w[k]
      /\ \A j \in 1..b : v[a + j] = t[j]
  BY <1>3, ChainGrows
<1>6. /\ stream' \in Seq(Tokens) /\ Len(stream') = s + b
      /\ \A j \in 1..(s + b) : stream'[j] = IF j <= s THEN stream[j] ELSE toks[j - s]
  <2>1. stream \in Seq(Tokens)
    BY <1>1 DEF H2Types
  <2> DEFINE more == stream \o toks
  <2>2. /\ more \in Seq(Tokens) /\ Len(more) = Len(stream) + Len(toks)
        /\ \A j \in 1..(Len(stream) + Len(toks)) :
             more[j] = IF j <= Len(stream) THEN stream[j] ELSE toks[j - Len(stream)]
    <3>1. \A x, y \in Seq(Tokens) :
            /\ x \o y \in Seq(Tokens) /\ Len(x \o y) = Len(x) + Len(y)
            /\ \A j \in 1..(Len(x) + Len(y)) : (x \o y)[j] = IF j <= Len(x) THEN x[j] ELSE y[j - Len(x)]
      BY Joining
    <3> QED
      BY <2>1, <3>1, Zenon
  <2>3. stream' = more /\ Len(toks) = b
    OBVIOUS
  <2> HIDE DEF more
  <2> QED
    BY <2>2, <2>3
<1> HIDE DEF v, a, b, s, u, e
<1>7. H2Types'
  BY <1>1, <1>2, <1>6 DEF H2Types
<1>8. EndsSeen'
  <2>1. ~closedByUs => ~h2Done /\ ~(h2Closed \/ NullReturned)
    BY <1>1 DEF EndsSeen
  <2>2. NullReturned' <=> NullReturned
    BY <1>2 DEF NullReturned
  <2> QED
    BY <1>2, <2>1, <2>2 DEF EndsSeen
<1>9. Reader(v, f)'
  <2>1. f \in 1..(a + b) /\ f \in 1..a /\ e \in 1..a
    <3>1. f \in 1..a /\ a = (f + u) + s
      BY <1>3 DEF e
    <3>2. f + u \in 1..a /\ f \in 1..(a + b)
      BY <1>4, <3>1
    <3> QED
      BY <3>1, <3>2 DEF e
  <2>2. Window(decBuffer, v, f)
    <3> SUFFICES ASSUME NEW j \in 1..u PROVE decBuffer[j] = v[f + j].tok
      BY DEF Window, u
    <3>1. f + j \in 1..a
      BY <1>3, <1>4 DEF e
    <3>2. decBuffer[j] = w[f + j].tok
      BY <1>3 DEF Window, u
    <3> QED
      BY <1>5, <3>1, <3>2
  <2>3. Window(stream', v, e)
    <3> SUFFICES ASSUME NEW j \in 1..(s + b) PROVE stream'[j] = v[e + j].tok
      BY <1>6 DEF Window
    <3>1. CASE j <= s
      <4>1. j \in 1..s /\ e + j \in 1..a
        BY <1>3, <1>4, <2>1, <3>1
      <4>2. stream[j] = w[e + j].tok
        BY <1>3, <4>1 DEF Window, s
      <4> QED
        BY <1>5, <1>6, <3>1, <4>1, <4>2
    <3>2. CASE ~(j <= s)
      <4> DEFINE i == j - s
      <4>1. i \in 1..b /\ e + j = a + i
        BY <1>3, <1>4, <2>1, <3>2
      <4>2. stream'[j] = toks[i]
        BY <1>6, <3>2
      <4> HIDE DEF i
      <4>3. toks[i] = t[i].tok /\ v[a + i] = t[i]
        BY <1>5, <4>1 DEF b
      <4> QED
        BY <4>1, <4>2, <4>3
    <3> QED
      BY <3>1, <3>2
  <2>4. v[f] = w[f] /\ v[e] = w[e]
    BY <1>5, <2>1
  <2>5. v[Len(v)] = t[b]
    <3>1. b \in 1..b
      BY <1>4
    <3> QED
      BY <1>5, <3>1
  <2>6. Len(v) = f + u + Len(stream')
    BY <1>3, <1>4, <1>5, <1>6 DEF e
  <2>7. Window(decBuffer, v, f)' /\ Window(stream, v, f + Len(decBuffer))'
    BY <1>2, <2>2, <2>3 DEF Window, e, u
  <2>8. f \in 1..Len(v)
    BY <1>5, <2>1
  <2>9. v[Len(v)].m = written' /\ v[Len(v)].d = 0 /\ v[Len(v)].at = 0
    BY <2>5 DEF b
  <2>10. /\ Len(v) = f + Len(decBuffer') + Len(stream')
         /\ Kept(Len(returned'), dataLines', v[f]) /\ pulled' = Arrived(v[f + Len(decBuffer')])
    BY <1>2, <1>3, <2>4, <2>6 DEF u, e
  <2> QED
    BY <1>3, <1>5, <2>4, <2>7, <2>8, <2>9, <2>10 DEF Reader
<1>10. \E x : \E g \in Nat : Reader(x, g)'
  BY <1>9
<1> QED
  BY <1>7, <1>8, <1>10 DEF H2Inv

LEMMA ServerTurn ==
  ASSUME LinesPerMessage = 1, H2Inv, ServerPushes \/ \E text \in {CR, Ignored} : ServerKeepalive(text)
  PROVE  H2Inv'
<1>1. PICK w : \E f \in Nat : Reader(w, f)
  BY DEF H2Inv
<1>2. PICK f \in Nat : Reader(w, f)
  BY <1>1
<1>3. streamEnd = "open" /\ written \in Nat
  BY DEF ServerPushes, ServerKeepalive, H2Inv, H2Types
<1> DEFINE x == w[Len(w)]
<1>4. x.m = written /\ x.d = 0 /\ x.at = 0
  BY <1>2, <1>3 DEF Reader
<1> HIDE DEF x
<1>5. CASE ServerPushes
  <2> DEFINE m == written
             toks == EncodeSSE(m + 1)
             t == <<Place(Token("data", m + 1, 1), m, 0, 1), Place(Token("rest", m + 1, 1), m, 0, 2),
                    Place(Token("LF", m + 1, 1), m, 1, 0), Place(LF, m + 1, 0, 0)>>
  <2>1. m + 1 \in Nat
    BY <1>3
  <2>2. toks = <<Token("data", m + 1, 1), Token("rest", m + 1, 1), Token("LF", m + 1, 1), LF>>
    <3> HIDE DEF m
    <3> QED
      BY <2>1, EncodeIs
  <2>3. \A kind \in {"data", "rest", "LF"} : Token(kind, m + 1, 1) \in Tokens
    BY <2>1 DEF Token, Tokens
  <2>4. LF \in Tokens
    BY DEF LF, Token, Tokens
  <2>5. \A tok \in Tokens, d \in {0, 1}, at \in 0..3 : Place(tok, m, d, at) \in Places /\ Place(tok, m + 1, d, at) \in Places
    BY <1>3, <2>1 DEF Place, Places
  <2>6. toks \in Seq(Tokens) /\ Len(toks) = 4
    <3> HIDE DEF toks
    <3>1. \A a, b, c, d \in Tokens : <<a, b, c, d>> \in Seq(Tokens) /\ Len(<<a, b, c, d>>) = 4
      OBVIOUS
    <3> QED
      BY <2>2, <2>3, <2>4, <3>1, Zenon
  <2>7. t \in Seq(Places) /\ Len(t) = 4
    <3>1. \A a, b, c, d \in Places : <<a, b, c, d>> \in Seq(Places) /\ Len(<<a, b, c, d>>) = 4
      OBVIOUS
    <3>2. /\ Place(Token("data", m + 1, 1), m, 0, 1) \in Places /\ Place(Token("rest", m + 1, 1), m, 0, 2) \in Places
          /\ Place(Token("LF", m + 1, 1), m, 1, 0) \in Places /\ Place(LF, m + 1, 0, 0) \in Places
      BY <2>3, <2>4, <2>5
    <3> QED
      BY <3>1, <3>2, Zenon
  <2>8. \A j \in 1..4 : toks[j] = t[j].tok
    <3> HIDE DEF toks
    <3> QED
      BY <2>2 DEF Place
  <2>9. Follows(x, t[1]) /\ \A j \in 1..3 : Follows(t[j], t[j + 1])
    <3>1. Follows(x, t[1])
      BY <1>4 DEF Follows
    <3>2. Follows(t[1], t[2]) /\ Follows(t[2], t[3])
      BY DEF Follows, Place
    <3>3. Follows(t[3], t[4])
      BY DEF Follows, Place
    <3>4. \A j \in 1..3 : j = 1 \/ j = 2 \/ j = 3
      OBVIOUS
    <3> HIDE DEF t
    <3> QED
      BY <3>1, <3>2, <3>3, <3>4
  <2>10. t[4].m = m + 1 /\ t[4].d = 0 /\ t[4].at = 0
    BY DEF Place
  <2>11. /\ written' = m + 1 /\ stream' = stream \o toks
         /\ UNCHANGED <<streamEnd, readerVars, closedByUs>>
    BY <1>5 DEF ServerPushes
  <2> HIDE DEF t, toks, m
  <2>12. t[4].m = written' /\ written' \in Nat
    BY <2>1, <2>10, <2>11
  <2>13. Len(t) > 0 /\ Len(toks) = Len(t) /\ (\A j \in 1..Len(t) : toks[j] = t[j].tok)
         /\ (\A j \in 1..(Len(t) - 1) : Follows(t[j], t[j + 1])) /\ Follows(w[Len(w)], t[1])
         /\ t[Len(t)].m = written' /\ t[Len(t)].d = 0 /\ t[Len(t)].at = 0
    BY <2>6, <2>7, <2>8, <2>9, <2>10, <2>12 DEF x
  <2> QED
    BY <1>2, <1>3, <2>6, <2>7, <2>11, <2>12, <2>13, ServerWrites
<1>6. ASSUME NEW text \in {CR, Ignored}, ServerKeepalive(text) PROVE H2Inv'
  <2> DEFINE m == written
             toks == <<text, LF>>
             t == <<Place(text, m, 0, 3), Place(LF, m, 0, 0)>>
  <2>1. text \in Tokens /\ LF \in Tokens
    BY DEF LF, CR, Ignored, Token, Tokens
  <2>2. Place(text, m, 0, 3) \in Places /\ Place(LF, m, 0, 0) \in Places
    BY <1>3, <2>1 DEF Place, Places
  <2>3. toks \in Seq(Tokens) /\ Len(toks) = 2 /\ t \in Seq(Places) /\ Len(t) = 2
    BY <2>1, <2>2
  <2>4. \A j \in 1..2 : toks[j] = t[j].tok
    BY DEF Place
  <2>5. Follows(x, t[1]) /\ Follows(t[1], t[2])
    BY <1>4 DEF Follows, Place
  <2>6. t[2].m = m /\ t[2].d = 0 /\ t[2].at = 0
    BY DEF Place
  <2>7. /\ written' = m /\ stream' = stream \o toks
        /\ UNCHANGED <<streamEnd, readerVars, closedByUs>>
    BY <1>6 DEF ServerKeepalive
  <2> HIDE DEF t, toks, m
  <2>8. t[2].m = written' /\ written' \in Nat
    BY <1>3, <2>6, <2>7 DEF m
  <2>9. \A j \in 1..(Len(t) - 1) : Follows(t[j], t[j + 1])
    <3>1. \A j \in 1..(Len(t) - 1) : j = 1
      BY <2>3
    <3> QED
      BY <2>5, <3>1
  <2>10. Len(t) > 0 /\ Len(toks) = Len(t) /\ (\A j \in 1..Len(t) : toks[j] = t[j].tok)
         /\ Follows(w[Len(w)], t[1]) /\ t[Len(t)].m = written' /\ t[Len(t)].d = 0 /\ t[Len(t)].at = 0
    BY <2>3, <2>4, <2>5, <2>6, <2>8 DEF x
  <2> QED
    BY <1>2, <1>3, <2>3, <2>7, <2>8, <2>9, <2>10, ServerWrites
<1> QED
  BY <1>5, <1>6

LEMMA ServerEndsStep ==
  ASSUME H2Inv, NEW k \in 0..Len(stream), NEW how \in {"eof", "error"}, ServerEnds(k, how)
  PROVE  H2Inv'
<1>1. PICK w : \E f \in Nat : Reader(w, f)
  BY DEF H2Inv
<1>2. PICK f \in Nat : Reader(w, f)
  BY <1>1
<1>3. H2Types /\ EndsSeen
  BY DEF H2Inv
<1>4. /\ streamEnd = "open" /\ stream' = SubSeq(stream, 1, k) /\ streamEnd' # "open"
      /\ UNCHANGED <<written, decBuffer, dataLines, h2Done, h2Closed, h2Results, returned, pulled, closedByUs>>
  BY DEF ServerEnds, readerVars
<1> DEFINE u == Len(decBuffer)
           e == f + u
           s == Len(stream)
<1>5. /\ Chain(w) /\ f \in 1..Len(w) /\ w[f].at = 0 /\ Len(w) = e + s
      /\ Window(decBuffer, w, f) /\ Window(stream, w, e)
      /\ Kept(Len(returned), dataLines, w[f]) /\ pulled = Arrived(w[e])
  BY <1>2 DEF Reader
<1>6. u \in Nat /\ s \in Nat /\ Len(w) \in Nat \ {0} /\ w \in Seq(Places) /\ stream \in Seq(Tokens)
  BY <1>3, <1>5, ChainTypes, LenProperties DEF H2Types, Chain
<1>7. e \in 1..(e + k) /\ f \in 1..(e + k) /\ e + k \in 0..Len(w) /\ e + k \in Nat /\ k \in 0..s
  <2>1. k \in 0..s /\ f \in 1..Len(w) /\ Len(w) = (f + u) + s
    BY <1>5
  <2> HIDE DEF u, s
  <2> QED
    BY <1>6, <2>1
<1>8. PICK v : v \in Seq(Places) /\ Len(v) = e + k /\ \A j \in 1..(e + k) : v[j] = w[j]
  <2> DEFINE l == e + k
  <2>1. l \in 0..Len(w)
    BY <1>7
  <2> HIDE DEF l
  <2>2. SubSeq(w, 1, l) \in Seq(Places) /\ Len(SubSeq(w, 1, l)) = l /\ \A j \in 1..l : SubSeq(w, 1, l)[j] = w[j]
    BY <1>6, <2>1, Prefix
  <2> QED
    BY <2>2 DEF l
<1>9. stream' \in Seq(Tokens) /\ Len(stream') = k /\ \A j \in 1..k : stream'[j] = stream[j]
  BY <1>4, <1>6, Prefix
<1> HIDE DEF u, e, s
<1>10. Chain(v)
  <2> DEFINE l == e + k
  <2>1. Len(v) = l /\ l \in 1..Len(w) /\ l \in Nat /\ \A j \in 1..l : v[j] = w[j]
    <3>1. Len(v) = l /\ \A j \in 1..l : v[j] = w[j]
      BY <1>8
    <3>2. l \in 1..Len(w) /\ l \in Nat
      BY <1>6, <1>7
    <3> QED
      BY <3>1, <3>2
  <2> HIDE DEF l
  <2>2. ASSUME NEW j \in 1..(l - 1) PROVE Follows(v[j], v[j + 1])
    <3>1. j \in 1..l /\ j + 1 \in 1..l /\ j \in 1..(Len(w) - 1)
      BY <1>6, <2>1
    <3> QED
      BY <1>5, <2>1, <3>1 DEF Chain
  <2>3. Len(v) > 0
    BY <2>1
  <2>4. \A j \in 1..(Len(v) - 1) : Follows(v[j], v[j + 1])
    BY <2>1, <2>2
  <2> QED
    BY <1>8, <2>3, <2>4 DEF Chain
<1>11. H2Types'
  BY <1>3, <1>4, <1>9 DEF H2Types
<1>12. EndsSeen'
  <2>1. ~closedByUs => ~h2Done /\ ~(h2Closed \/ NullReturned)
    BY <1>3, <1>4 DEF EndsSeen
  <2>2. NullReturned' <=> NullReturned
    BY <1>4 DEF NullReturned
  <2> QED
    BY <1>4, <2>1, <2>2 DEF EndsSeen
<1>13. Reader(v, f)'
  <2>1. Window(decBuffer, v, f)
    <3> SUFFICES ASSUME NEW j \in 1..u PROVE decBuffer[j] = v[f + j].tok
      BY DEF Window, u
    <3>1. f + j \in 1..(e + k)
      BY <1>6, <1>7 DEF e
    <3>2. decBuffer[j] = w[f + j].tok
      BY <1>5 DEF Window, u
    <3> QED
      BY <1>8, <3>1, <3>2
  <2>2. Window(stream', v, e)
    <3> SUFFICES ASSUME NEW j \in 1..k PROVE stream'[j] = v[e + j].tok
      BY <1>9 DEF Window
    <3>1. e + j \in 1..(e + k) /\ j \in 1..s
      BY <1>6, <1>7
    <3>2. stream[j] = w[e + j].tok
      BY <1>5, <3>1 DEF Window, s
    <3> QED
      BY <1>8, <1>9, <3>1, <3>2
  <2>3. v[f] = w[f] /\ v[e] = w[e] /\ f \in 1..Len(v)
    BY <1>7, <1>8
  <2>4. Window(decBuffer, v, f)' /\ Window(stream, v, f + Len(decBuffer))'
    BY <1>4, <2>1, <2>2 DEF Window, e, u
  <2>5. /\ Len(v) = f + Len(decBuffer') + Len(stream')
        /\ Kept(Len(returned'), dataLines', v[f]) /\ pulled' = Arrived(v[f + Len(decBuffer')])
    BY <1>4, <1>5, <1>8, <1>9, <2>3 DEF u, e
  <2> QED
    BY <1>4, <1>5, <1>10, <2>3, <2>4, <2>5 DEF Reader
<1>14. \E x : \E g \in Nat : Reader(x, g)'
  BY <1>13
<1> QED
  BY <1>11, <1>12, <1>14 DEF H2Inv

LEMMA ChunkPulled ==
  ASSUME LinesPerMessage = 1, H2Inv, NEW k \in DOMAIN stream, PullChunk(k)
  PROVE  H2Inv'
<1>1. PICK w : \E f \in Nat : Reader(w, f)
  BY DEF H2Inv
<1>2. PICK f \in Nat : Reader(w, f)
  BY <1>1
<1>3. H2Types /\ EndsSeen
  BY DEF H2Inv
<1> DEFINE u == Len(decBuffer)
           s == Len(stream)
           e == f + u
           chunk == SubSeq(stream, 1, k)
           buffer == decBuffer \o chunk
<1>4. /\ Chain(w) /\ f \in 1..Len(w) /\ w[f].at = 0 /\ Len(w) = e + s
      /\ Window(decBuffer, w, f) /\ Window(stream, w, e)
      /\ Kept(Len(returned), dataLines, w[f]) /\ pulled = Arrived(w[e])
      /\ streamEnd = "open" => w[Len(w)].m = written /\ w[Len(w)].d = 0 /\ w[Len(w)].at = 0
  BY <1>2 DEF Reader
<1>5. /\ u \in Nat /\ s \in Nat /\ Len(w) \in Nat \ {0} /\ stream \in Seq(Tokens) /\ decBuffer \in Seq(Tokens)
      /\ k \in 1..s
  BY <1>3, <1>4, ChainTypes, LenProperties DEF H2Types
<1>6. chunk \in Seq(Tokens) /\ Len(chunk) = k /\ \A j \in 1..k : chunk[j] = stream[j]
  <2>1. k \in 0..Len(stream)
    BY <1>5
  <2> QED
    BY <1>5, <2>1, Prefix
<1>7. /\ stream' \in Seq(Tokens) /\ Len(stream') = s - k /\ \A j \in 1..(s - k) : stream'[j] = stream[k + j]
  <2>1. k \in 0..Len(stream) /\ stream' = SubSeq(stream, k + 1, Len(stream))
    BY <1>5 DEF PullChunk
  <2> QED
    BY <1>5, <2>1, Suffix
<1> HIDE DEF chunk
<1>8. /\ buffer \in Seq(Tokens) /\ Len(buffer) = u + k
      /\ \A j \in 1..(u + k) : buffer[j] = IF j <= u THEN decBuffer[j] ELSE chunk[j - u]
  <2>1. \A x, y \in Seq(Tokens) :
          /\ x \o y \in Seq(Tokens) /\ Len(x \o y) = Len(x) + Len(y)
          /\ \A j \in 1..(Len(x) + Len(y)) : (x \o y)[j] = IF j <= Len(x) THEN x[j] ELSE y[j - Len(x)]
    BY Joining
  <2>2. /\ decBuffer \o chunk \in Seq(Tokens) /\ Len(decBuffer \o chunk) = Len(decBuffer) + Len(chunk)
        /\ \A j \in 1..(Len(decBuffer) + Len(chunk)) :
             (decBuffer \o chunk)[j] = IF j <= Len(decBuffer) THEN decBuffer[j] ELSE chunk[j - Len(decBuffer)]
    BY <1>5, <1>6, <2>1, Zenon
  <2> QED
    BY <1>6, <2>2
<1> HIDE DEF u, e, s, buffer
<1>9. e \in 1..Len(w) /\ e + k \in 1..Len(w) /\ k \in 0..(Len(w) - e) /\ f + (u + k) = e + k
  BY <1>4, <1>5 DEF e
<1>10. Window(buffer, w, f)
  <2> SUFFICES ASSUME NEW j \in 1..(u + k) PROVE buffer[j] = w[f + j].tok
    BY <1>8 DEF Window
  <2>1. CASE j <= u
    <3>1. j \in 1..u
      BY <1>5, <2>1
    <3>2. decBuffer[j] = w[f + j].tok
      BY <1>4, <3>1 DEF Window, u
    <3> QED
      BY <1>8, <2>1, <3>2
  <2>2. CASE ~(j <= u)
    <3> DEFINE i == j - u
    <3>1. i \in 1..k /\ i \in 1..s /\ e + i = f + j
      BY <1>5, <2>2 DEF e
    <3>2. buffer[j] = chunk[i]
      BY <1>8, <2>2
    <3> HIDE DEF i
    <3>3. chunk[i] = stream[i] /\ stream[i] = w[e + i].tok
      BY <1>4, <1>6, <3>1 DEF Window, s
    <3> QED
      BY <3>1, <3>2, <3>3
  <2> QED
    BY <2>1, <2>2
<1>11. Window(stream', w, f + Len(buffer))
  <2> SUFFICES ASSUME NEW j \in 1..(s - k) PROVE stream'[j] = w[(e + k) + j].tok
    BY <1>7, <1>8, <1>9 DEF Window
  <2>1. k + j \in 1..s /\ e + (k + j) = (e + k) + j
    <3>1. k + j \in 1..s
      BY <1>5
    <3>2. e \in Nat /\ k \in Nat /\ j \in Nat
      BY <1>5, <1>9
    <3> QED
      BY <3>1, <3>2
  <2>2. stream[k + j] = w[e + (k + j)].tok
    BY <1>4, <2>1 DEF Window, s
  <2> QED
    BY <1>7, <2>1, <2>2
<1>12. pulled' = Arrived(w[f + Len(buffer)])
  <2> DEFINE ends == {j \in 1..k : CountsAsOne(w[e + j].tok)}
             counted == {j \in 1..k : stream[j].kind = "LF" /\ stream[j].line = LinesPerMessage}
  <2>1. counted = ends
    <3>1. ASSUME NEW j \in 1..k PROVE stream[j] = w[e + j].tok
      <4>1. j \in 1..s
        BY <1>5
      <4> QED
        BY <1>4, <4>1 DEF Window, s
    <3> QED
      BY <3>1 DEF CountsAsOne
  <2>2. pulled' = pulled + Cardinality(counted)
    BY DEF PullChunk, Complete
  <2> HIDE DEF counted
  <2>3. Arrived(w[e + k]) = Arrived(w[e]) + Cardinality(ends)
    <3>1. e \in 1..Len(w) /\ k \in 0..(Len(w) - e) /\ Chain(w)
      BY <1>4, <1>9
    <3> QED
      BY <3>1, ArrivedCounts, Zenon
  <2> HIDE DEF ends
  <2> QED
    BY <1>4, <1>8, <1>9, <2>1, <2>2, <2>3
<1>13. Len(w) = f + Len(buffer) + Len(stream')
  <2>1. Len(w) = f + u + s
    BY <1>4 DEF e
  <2>2. u \in Nat /\ s \in Nat /\ k \in Nat /\ f \in Nat
    BY <1>5
  <2>3. Len(buffer) = u + k /\ Len(stream') = s - k
    BY <1>7, <1>8
  <2> HIDE DEF u, s, buffer
  <2> QED
    BY <2>1, <2>2, <2>3
<1>14. ~closedByUs => ~h2Done
  <2>1. stream # <<>>
    BY <1>5, EmptySeq DEF s
  <2> QED
    BY <1>3, <2>1 DEF EndsSeen
<1>15. h2Done \in BOOLEAN /\ h2Results \in Seq(Int)
  BY <1>3 DEF H2Types
<1>16. (\E j \in DOMAIN h2Results : h2Results[j] = -1) => NullReturned
  BY DEF NullReturned
<1>17. /\ ReadOn(Head(h2Waiting), buffer, h2Done, h2Results, Tail(h2Waiting))
       /\ UNCHANGED <<streamEnd, written, closedByUs>>
  BY DEF PullChunk, buffer, chunk
<1> QED
  BY <1>3, <1>4, <1>7, <1>8, <1>10, <1>11, <1>12, <1>13, <1>14, <1>15, <1>16, <1>17, ReadOnKeeps

\* The calls that read on without a chunk.
LEMMA ReadsOnAlone ==
  ASSUME LinesPerMessage = 1, H2Inv, NEW done \in BOOLEAN, h2Done => done,
         ~closedByUs /\ done => streamEnd # "open" /\ stream = <<>>,
         NEW results \in Seq(Int), (\E j \in DOMAIN results : results[j] = -1) => NullReturned,
         NEW i, NEW waiting, ReadOn(i, decBuffer, done, results, waiting),
         UNCHANGED <<serverVars, pulled, closedByUs>>
  PROVE  H2Inv'
<1>1. PICK w : \E f \in Nat : Reader(w, f)
  BY DEF H2Inv
<1>2. PICK f \in Nat : Reader(w, f)
  BY <1>1
<1>3. H2Types /\ EndsSeen
  BY DEF H2Inv
<1>4. /\ Chain(w) /\ f \in 1..Len(w) /\ w[f].at = 0 /\ Len(w) = f + Len(decBuffer) + Len(stream)
      /\ Window(decBuffer, w, f) /\ Window(stream, w, f + Len(decBuffer))
      /\ Kept(Len(returned), dataLines, w[f]) /\ pulled = Arrived(w[f + Len(decBuffer)])
      /\ streamEnd = "open" => w[Len(w)].m = written /\ w[Len(w)].d = 0 /\ w[Len(w)].at = 0
  BY <1>2 DEF Reader
<1>5. UNCHANGED <<stream, streamEnd, written, pulled, closedByUs>>
  BY DEF serverVars
<1>6. decBuffer \in Seq(Tokens) /\ stream' \in Seq(Tokens)
  BY <1>3, <1>5 DEF H2Types
<1>7. Len(w) = f + Len(decBuffer) + Len(stream') /\ Window(stream', w, f + Len(decBuffer))
  BY <1>4, <1>5
<1>8. pulled' = Arrived(w[f + Len(decBuffer)]) /\ pulled' = pulled /\ (~closedByUs /\ done => stream' = <<>>)
  BY <1>4, <1>5
<1> QED
  BY <1>3, <1>4, <1>5, <1>6, <1>7, <1>8, ReadOnKeeps

LEMMA H2Step ==
  ASSUME LinesPerMessage = 1, H2Inv, [H2Next]_h2Vars
  PROVE  H2Inv'
<1>1. PICK w : \E f \in Nat : Reader(w, f)
  BY DEF H2Inv
<1>2. PICK f \in Nat : Reader(w, f)
  BY <1>1
<1>3. H2Types /\ EndsSeen
  BY DEF H2Inv
\* A step that leaves the stream and the decoder alone.
<1>4. ASSUME UNCHANGED <<stream, written, decBuffer, dataLines, returned, pulled>>, h2Results' \in Seq(Int),
             h2Done' \in BOOLEAN, h2Closed' \in BOOLEAN, closedByUs' \in BOOLEAN,
             streamEnd' = "open" => streamEnd = "open", EndsSeen'
      PROVE  H2Inv'
  <2>1. H2Types'
    BY <1>3, <1>4 DEF H2Types
  <2>2. Reader(w, f)'
    <3>1. Window(decBuffer, w, f)' /\ Window(stream, w, f + Len(decBuffer))'
      BY <1>2, <1>4 DEF Reader, Window
    <3> QED
      BY <1>2, <1>4, <3>1 DEF Reader
  <2>3. \E x : \E g \in Nat : Reader(x, g)'
    BY <2>2
  <2> QED
    BY <1>4, <2>1, <2>3 DEF H2Inv
<1>5. ASSUME UNCHANGED <<serverVars, readerVars, closedByUs>> PROVE H2Inv'
  <2>1. UNCHANGED <<stream, streamEnd, written, decBuffer, dataLines, h2Done, h2Closed, h2Results, returned,
                    pulled, closedByUs>>
    BY <1>5 DEF serverVars, readerVars
  <2>2. EndsSeen'
    <3>1. NullReturned' <=> NullReturned
      BY <2>1 DEF NullReturned
    <3> QED
      BY <1>3, <2>1, <3>1 DEF EndsSeen
  <2> QED
    BY <1>3, <1>4, <2>1, <2>2 DEF H2Types
<1>6. CASE UNCHANGED h2Vars
  BY <1>5, <1>6 DEF h2Vars
<1>7. CASE DialH2Session \/ \E p \in H2Posts : H2Send(p) \/ PostAnswered(p)
  BY <1>5, <1>7 DEF DialH2Session, H2Send, PostAnswered
<1>8. CASE ServerPushes \/ \E text \in {CR, Ignored} : ServerKeepalive(text)
  BY <1>8, ServerTurn
<1>9. CASE \E k \in 0..Len(stream), how \in {"eof", "error"} : ServerEnds(k, how)
  BY <1>9, ServerEndsStep
<1>10. CASE H2Close
  <2>1. /\ UNCHANGED <<stream, streamEnd, written, decBuffer, dataLines, h2Results, returned, pulled>>
        /\ h2Done' \in BOOLEAN /\ h2Closed' \in BOOLEAN /\ closedByUs' = TRUE
    BY <1>10 DEF H2Close, serverVars
  <2>2. EndsSeen'
    BY <2>1 DEF EndsSeen
  <2>3. h2Results' \in Seq(Int) /\ closedByUs' \in BOOLEAN /\ (streamEnd' = "open" => streamEnd = "open")
    BY <1>3, <2>1 DEF H2Types
  <2> QED
    BY <1>4, <2>1, <2>2, <2>3
<1>11. CASE PullFails
  <2>1. /\ UNCHANGED <<stream, written, decBuffer, dataLines, h2Done, h2Closed, returned, pulled, closedByUs>>
        /\ stream = <<>> /\ streamEnd' # "open"
        /\ h2Results' = [h2Results EXCEPT ![Head(h2Waiting)] = -2]
    BY <1>11 DEF PullFails
  <2>2. /\ h2Results' \in Seq(Int) /\ DOMAIN h2Results' = DOMAIN h2Results
        /\ \A k \in DOMAIN h2Results : h2Results'[k] = -2 \/ h2Results'[k] = h2Results[k]
    <3>1. h2Results \in Seq(Int)
      BY <1>3 DEF H2Types
    <3> QED
      BY <2>1, <3>1, ResultChanges
  <2>3. NullReturned' => NullReturned
    BY <2>2 DEF NullReturned
  <2>4. EndsSeen'
    BY <1>3, <2>1, <2>3 DEF EndsSeen
  <2> QED
    BY <1>3, <1>4, <2>1, <2>2, <2>4 DEF H2Types
<1>12. CASE \E k \in DOMAIN stream : PullChunk(k)
  BY <1>12, ChunkPulled
<1>13. CASE PullEnd
  <2>1. /\ stream = <<>> /\ streamEnd # "open" /\ UNCHANGED <<serverVars, pulled, closedByUs>>
        /\ ReadOn(Head(h2Waiting), decBuffer, TRUE, h2Results, Tail(h2Waiting))
    BY <1>13 DEF PullEnd
  <2>2. h2Results \in Seq(Int) /\ ((\E j \in DOMAIN h2Results : h2Results[j] = -1) => NullReturned)
    BY <1>3 DEF H2Types, NullReturned
  <2> QED
    BY <2>1, <2>2, ReadsOnAlone
<1>14. CASE H2Receive
  <2>1. UNCHANGED <<serverVars, pulled, closedByUs>> /\ h2Results \in Seq(Int)
    BY <1>3, <1>14 DEF H2Receive, H2Types
  <2>2. ASSUME NEW r \in Int
        PROVE  LET t == Append(h2Results, r) IN
               /\ t \in Seq(Int) /\ DOMAIN t = 1..(Len(h2Results) + 1) /\ DOMAIN h2Results = 1..Len(h2Results)
               /\ t[Len(h2Results) + 1] = r /\ \A j \in 1..Len(h2Results) : t[j] = h2Results[j]
    BY <2>1, AppendProperties, LenProperties
  <2>3. CASE /\ h2Closed /\ h2Results' = Append(h2Results, -1)
             /\ UNCHANGED <<decBuffer, dataLines, h2Done, h2Closed, h2Waiting, returned>>
    <3>1. h2Results' \in Seq(Int)
      BY <2>2, <2>3
    <3>2. UNCHANGED <<stream, streamEnd, written, pulled, closedByUs>>
      BY <2>1 DEF serverVars
    <3>3. EndsSeen'
      BY <1>3, <2>3, <3>2 DEF EndsSeen
    <3> QED
      BY <1>3, <1>4, <2>3, <3>1, <3>2, <3>3 DEF H2Types
  <2>4. CASE ~h2Closed /\ ReadOn(Len(h2Results) + 1, decBuffer, h2Done, Append(h2Results, 0), h2Waiting)
    <3> DEFINE results == Append(h2Results, 0)
    <3>1. results \in Seq(Int)
      BY <2>2
    <3>2. (\E j \in DOMAIN results : results[j] = -1) => NullReturned
      <4>1. /\ DOMAIN results = 1..(Len(h2Results) + 1) /\ DOMAIN h2Results = 1..Len(h2Results)
            /\ results[Len(h2Results) + 1] = 0 /\ \A j \in 1..Len(h2Results) : results[j] = h2Results[j]
        BY <2>2
      <4>2. \A j \in 1..(Len(h2Results) + 1) : j \in 1..Len(h2Results) \/ j = Len(h2Results) + 1
        BY <2>1, LenProperties
      <4> HIDE DEF results
      <4> QED
        BY <4>1, <4>2 DEF NullReturned
    <3>3. h2Done \in BOOLEAN /\ (~closedByUs /\ h2Done => streamEnd # "open" /\ stream = <<>>)
      BY <1>3 DEF H2Types, EndsSeen
    <3>4. ReadOn(Len(h2Results) + 1, decBuffer, h2Done, results, h2Waiting)
      BY <2>4
    <3> HIDE DEF results
    <3> QED
      BY <2>1, <3>1, <3>2, <3>3, <3>4, ReadsOnAlone
  <2> QED
    BY <1>14, <2>3, <2>4 DEF H2Receive
<1> QED
  BY <1>6, <1>7, <1>8, <1>9, <1>10, <1>11, <1>12, <1>13, <1>14 DEF H2Next, Pull

LEMMA H2InvInit == H2Init => H2Inv
<1> SUFFICES ASSUME H2Init PROVE H2Inv
  OBVIOUS
<1>1. /\ stream = <<>> /\ streamEnd = "open" /\ written = 0 /\ decBuffer = <<>> /\ dataLines = <<>>
      /\ h2Done = FALSE /\ h2Closed = FALSE /\ h2Results = <<>> /\ returned = <<>> /\ pulled = 0 /\ closedByUs = FALSE
  BY DEF H2Init
<1>2. Len(stream) = 0 /\ Len(decBuffer) = 0 /\ Len(returned) = 0 /\ Len(h2Results) = 0
  BY <1>1, EmptySeq
<1>3. \A i \in 1..0 : FALSE
  OBVIOUS
<1>4. H2Types
  BY <1>1, <1>2, <1>3, EmptySeq DEF H2Types
<1>5. ~NullReturned
  BY <1>1 DEF NullReturned
<1>6. EndsSeen
  BY <1>1, <1>5 DEF EndsSeen
<1> DEFINE x == Place(LF, 0, 0, 0)
           w == <<x>>
<1>7. x \in Places /\ x.m = 0 /\ x.d = 0 /\ x.at = 0
  BY DEF Place, Places, LF, Token, Tokens
<1> HIDE DEF x
<1>8. w \in Seq(Places) /\ Len(w) = 1 /\ w[1] = x
  BY <1>7
<1>9. Chain(w)
  <2>1. \A k \in 1..(Len(w) - 1) : FALSE
    BY <1>8
  <2> QED
    BY <1>8, <2>1 DEF Chain
<1> HIDE DEF w
<1>10. Reader(w, 1)
  <2>1. Window(decBuffer, w, 1) /\ Window(stream, w, 1 + Len(decBuffer))
    BY <1>2, <1>3 DEF Window
  <2>2. Kept(Len(returned), dataLines, w[1])
    BY <1>1, <1>2, <1>7, <1>8 DEF Kept
  <2>3. 1 + Len(decBuffer) = 1 /\ Len(w) = 1 + Len(decBuffer) + Len(stream) /\ 1 \in 1..Len(w)
    BY <1>2, <1>8
  <2>4. pulled = Arrived(w[1 + Len(decBuffer)])
    BY <1>1, <1>7, <1>8, <2>3 DEF Arrived
  <2>5. w[Len(w)].m = written /\ w[Len(w)].d = 0 /\ w[Len(w)].at = 0 /\ w[1].at = 0
    BY <1>1, <1>7, <1>8
  <2> QED
    BY <1>9, <2>1, <2>2, <2>3, <2>4, <2>5 DEF Reader
<1> QED
  BY <1>4, <1>6, <1>10 DEF H2Inv

LEMMA H2InvOrders == H2Inv => H2InOrder
<1> SUFFICES ASSUME H2Inv PROVE H2InOrder
  OBVIOUS
<1>1. PICK w : \E f \in Nat : Reader(w, f)
  BY DEF H2Inv
<1>2. PICK f \in Nat : Reader(w, f)
  BY <1>1
<1>3. H2Types /\ EndsSeen
  BY DEF H2Inv
<1> DEFINE n == Len(returned)
<1>4. n \in Nat /\ returned \in Seq(Nat) /\ \A i \in 1..n : returned[i] = i
  BY <1>3, LenProperties DEF H2Types
<1>5. returned = [i \in 1..n |-> i]
  BY <1>4
<1>6. n <= pulled
  <2> DEFINE e == f + Len(decBuffer)
  <2>1. /\ Chain(w) /\ f \in 1..Len(w) /\ Len(w) = e + Len(stream) /\ pulled = Arrived(w[e])
        /\ Kept(n, dataLines, w[f])
    BY <1>2 DEF Reader
  <2>2. Len(w) \in Nat /\ Len(decBuffer) \in Nat /\ Len(stream) \in Nat /\ w[f] \in Places
    BY <1>3, <2>1, ChainTypes, LenProperties DEF H2Types
  <2>3. e \in f..Len(w)
    BY <2>1, <2>2
  <2> HIDE DEF e, n
  <2>4. Arrived(w[f]) <= Arrived(w[e]) /\ Arrived(w[f]) \in Nat /\ Arrived(w[e]) \in Nat
    <3>1. e \in 1..Len(w)
      BY <2>1, <2>3
    <3> QED
      BY <2>1, <2>3, <3>1, ArrivedGrows, ChainTypes
  <2>5. n <= Arrived(w[f])
    BY <1>4, <2>1, <2>2, KeptCounts
  <2> QED
    BY <1>4, <2>1, <2>4, <2>5
<1>7. (\E i \in DOMAIN h2Results : h2Results[i] = -1) /\ ~closedByUs => n = pulled
  BY <1>3 DEF EndsSeen, NullReturned
<1> QED
  BY <1>5, <1>6, <1>7 DEF H2InOrder

\* Whatever wire a session has, its receive calls return the messages that
\* arrive: whole, in order, none twice and none left out, wherever the stream is
\* cut and whenever a transport fails or is closed (ws.ts receive and the event
\* handlers, h2.ts SSEDecoder and the event reader).
THEOREM FramesInOrderHolds == LinesPerMessage = 1 => (WiresSpec => []FramesInOrder)
<1> SUFFICES ASSUME LinesPerMessage = 1 PROVE WiresSpec => []FramesInOrder
  OBVIOUS
<1>1. WiresInit => WsInv /\ H2Inv
  BY WsInvInit, H2InvInit DEF WiresInit
<1>2. ASSUME WsInv, H2Inv, [WiresNext]_wiresVars PROVE WsInv' /\ H2Inv'
  <2>1. [WebSocketNext]_wsVars /\ [H2Next]_h2Vars
    BY <1>2 DEF WiresNext, wiresVars
  <2> QED
    BY <1>2, <2>1, WebSocketStep, H2Step
<1>3. WsInv /\ H2Inv => FramesInOrder
  BY WsInvOrders, H2InvOrders DEF FramesInOrder
<1> QED
  BY <1>1, <1>2, <1>3, PTL DEF WiresSpec

-----------------------------------------------------------------------------
(* The drivers *)

ToClient(k) == line[k]["client"]
ToServer(k) == line[k]["server"]
Still(k) == ToClient(k) = <<>> /\ ToServer(k) = <<>>
Joined(k) == Open(k, "client") /\ Open(k, "server")
Broken(k) == k \in cut /\ Still(k) /\ ~Open(k, "client") /\ ~Open(k, "server")

\* A line with one message and nothing under way in the other direction.
Asks(k, m) == ToServer(k) = <<m>> /\ ToClient(k) = <<>>
Tells(k, m) == ToClient(k) = <<m>> /\ ToServer(k) = <<>>

ConnectTypes ==
  /\ cfg \in Configs
  /\ DOMAIN line = Conns /\ \A k \in Conns : DOMAIN line[k] = Sides
  /\ DOMAIN server = Conns

\* How far a resume is, by its server run.
ResumeStage ==
  \/ /\ server["resume"] = "none" /\ "resume" \notin cut /\ pc \notin {"resuming", "resumed"}
     /\ Still("resume") /\ Joined("resume")
  \/ /\ server["resume"] = "wait" /\ pc = "resuming"
     /\ Asks("resume", Msg("resume", cfg.program)) /\ Joined("resume")
  \/ /\ server["resume"] = "lookup" /\ pc = "resuming" /\ Still("resume") /\ Joined("resume")
  \/ /\ server["resume"] = "session" /\ pc = "resuming"
     /\ Tells("resume", Msg("accepted", "")) /\ Joined("resume")
  \/ /\ server["resume"] = "session" /\ pc \notin {"start", "resuming"}
  \/ /\ server["resume"] = "rejected" /\ pc = "resuming" /\ Open("resume", "client")
     /\ \E code : code # "none" /\ Tells("resume", Msg("rejected", code))
  \/ /\ server["resume"] = "rejected" /\ pc \notin {"start", "resuming", "resumed"} /\ reason # "none"
  \/ /\ server["resume"] = "failed" /\ pc = "resuming" /\ Still("resume") /\ ~Open("resume", "server")
  \/ /\ server["resume"] = "failed" /\ pc \notin {"start", "resuming", "resumed"}
  \/ /\ server["resume"] # "none" /\ Broken("resume") /\ pc # "start"
     /\ pc = "resumed" => server["resume"] = "session"

\* How far a full handshake is, by its server run.
FullStage ==
  \/ /\ server["full"] = "none" /\ "full" \notin cut
     /\ pc \in {"start", "resuming", "resumed", "fallback", "rejected", "failed"}
     /\ Still("full") /\ Joined("full")
  \/ /\ server["full"] = "wait" /\ pc = "response"
     /\ Asks("full", Msg("init", cfg.suite)) /\ Joined("full")
  \/ /\ server["full"] = "wait" /\ pc = "failed" /\ Still("full")
  \/ /\ server["full"] = "confirm" /\ suite = cfg.suite /\ pc = "response"
     /\ Tells("full", Msg("response", cfg.suite)) /\ Joined("full")
  \/ /\ server["full"] = "confirm" /\ suite = cfg.suite /\ pc = "accepted"
     /\ Asks("full", Msg("confirm", cfg.identity)) /\ Joined("full")
  \/ /\ server["full"] = "confirm" /\ suite = cfg.suite /\ pc = "failed" /\ ToServer("full") = <<>>
  \/ /\ server["full"] = "session" /\ suite = cfg.suite /\ pc = "accepted"
     /\ Tells("full", Msg("accepted", "")) /\ Joined("full")
  \/ /\ server["full"] = "session" /\ suite = cfg.suite /\ pc \in {"session", "failed"}
  \/ /\ server["full"] = "rejected" /\ pc \in {"response", "accepted"} /\ Open("full", "client")
     /\ \E code : code # "none" /\ Tells("full", Msg("rejected", code))
  \/ /\ server["full"] = "rejected" /\ pc = "rejected"
  \/ /\ server["full"] = "failed" /\ pc \in {"response", "accepted"} /\ Still("full") /\ ~Open("full", "server")
  \/ /\ server["full"] = "failed" /\ pc = "failed"
  \/ /\ server["full"] # "none" /\ Broken("full")
     /\ pc \in {"response", "accepted", "session", "rejected", "failed"}
     /\ server["full"] = "session" => suite = cfg.suite
     /\ server["full"] = "confirm" => suite = cfg.suite
     /\ pc = "session" => server["full"] = "session"

ConnectInv == ConnectTypes /\ ResumeStage /\ FullStage

\* A line that holds one message.
LEMMA OneMessage ==
  \A m : Head(<<m>>) = m /\ Tail(<<m>>) = <<>> /\ Append(<<>>, m) = <<m>> /\ <<m>> # <<>>
OBVIOUS

\* Reading a line takes its message and touches no other line.
LEMMA LineRead ==
  ASSUME ConnectTypes, NEW k \in Conns, NEW s \in Sides, line' = Reads(k, s)
  PROVE  /\ DOMAIN line' = Conns /\ \A j \in Conns : DOMAIN line'[j] = Sides
         /\ line'[k][s] = Tail(line[k][s]) /\ line'[k][Other(s)] = line[k][Other(s)]
         /\ \A j \in Conns \ {k} : line'[j] = line[j]
<1>1. Other(s) \in Sides /\ Other(s) # s
  BY DEF Sides, Other
<1> QED
  BY <1>1 DEF ConnectTypes, Reads

\* So does answering what was read.
LEMMA LineAnswered ==
  ASSUME ConnectTypes, NEW k \in Conns, NEW s \in Sides, NEW m, ReadThenSend(k, s, m)
  PROVE  /\ DOMAIN line' = Conns /\ \A j \in Conns : DOMAIN line'[j] = Sides
         /\ line'[k][s] = Tail(line[k][s]) /\ line'[k][Other(s)] = Append(line[k][Other(s)], m)
         /\ \A j \in Conns \ {k} : line'[j] = line[j]
<1>1. Other(s) \in Sides /\ Other(s) # s
  BY DEF Sides, Other
<1> QED
  BY <1>1 DEF ConnectTypes, ReadThenSend

\* A step of the full handshake leaves the resume where it is.
LEMMA ResumeKept ==
  ASSUME ResumeStage, cfg' = cfg, line'["resume"] = line["resume"],
         "resume" \in cut' <=> "resume" \in cut, server'["resume"] = server["resume"],
         \A s \in Sides : <<"resume", s>> \in closedEnds' <=> <<"resume", s>> \in closedEnds,
         reason # "none" => reason' # "none",
         pc' = pc \/ (pc # "resuming" /\ pc' \notin {"start", "resuming", "resumed"})
  PROVE  ResumeStage'
<1>1. /\ ToClient("resume")' = ToClient("resume") /\ ToServer("resume")' = ToServer("resume")
      /\ Open("resume", "client")' <=> Open("resume", "client")
      /\ Open("resume", "server")' <=> Open("resume", "server")
  BY DEF ToClient, ToServer, Open, Sides
<1>2. /\ Still("resume")' <=> Still("resume")
      /\ Joined("resume")' <=> Joined("resume")
      /\ Broken("resume")' <=> Broken("resume")
      /\ \A m : (Asks("resume", m)' <=> Asks("resume", m)) /\ (Tells("resume", m)' <=> Tells("resume", m))
  BY <1>1 DEF Still, Joined, Broken, Asks, Tells
<1>3. CASE pc' = pc
  BY <1>1, <1>2, <1>3 DEF ResumeStage
<1>4. CASE pc' # pc
  BY <1>1, <1>2, <1>4 DEF ResumeStage
<1> QED
  BY <1>3, <1>4

\* A step of the resume leaves the full handshake where it is.
LEMMA FullKept ==
  ASSUME FullStage, cfg' = cfg, suite' = suite, line'["full"] = line["full"],
         "full" \in cut' <=> "full" \in cut, server'["full"] = server["full"],
         \A s \in Sides : <<"full", s>> \in closedEnds' <=> <<"full", s>> \in closedEnds,
         \/ pc' = pc
         \/ /\ pc \in {"start", "resuming", "resumed", "fallback"}
            /\ pc' \in {"resuming", "resumed", "fallback", "rejected", "failed"}
  PROVE  FullStage'
<1>1. /\ ToClient("full")' = ToClient("full") /\ ToServer("full")' = ToServer("full")
      /\ Open("full", "client")' <=> Open("full", "client")
      /\ Open("full", "server")' <=> Open("full", "server")
  BY DEF ToClient, ToServer, Open, Sides
<1>2. /\ Still("full")' <=> Still("full")
      /\ Joined("full")' <=> Joined("full")
      /\ Broken("full")' <=> Broken("full")
      /\ \A m : (Asks("full", m)' <=> Asks("full", m)) /\ (Tells("full", m)' <=> Tells("full", m))
  BY <1>1 DEF Still, Joined, Broken, Asks, Tells
<1>3. /\ Asks("full", Msg("init", cfg.suite))' <=> Asks("full", Msg("init", cfg.suite))
      /\ Tells("full", Msg("response", cfg.suite))' <=> Tells("full", Msg("response", cfg.suite))
      /\ Asks("full", Msg("confirm", cfg.identity))' <=> Asks("full", Msg("confirm", cfg.identity))
      /\ Tells("full", Msg("accepted", ""))' <=> Tells("full", Msg("accepted", ""))
      /\ \A code : Tells("full", Msg("rejected", code))' <=> Tells("full", Msg("rejected", code))
  BY <1>2 DEF Msg
<1>4. (suite = cfg.suite)' <=> suite = cfg.suite
  OBVIOUS
<1>5. CASE pc' = pc
  <2>1. /\ Still("full")' <=> Still("full")
        /\ Joined("full")' <=> Joined("full")
        /\ Broken("full")' <=> Broken("full")
        /\ ToServer("full")' = ToServer("full")
        /\ Open("full", "client")' <=> Open("full", "client")
        /\ Open("full", "server")' <=> Open("full", "server")
    BY <1>1, <1>2
  <2>2. server'["full"] = server["full"] /\ pc' = pc /\ ("full" \in cut' <=> "full" \in cut)
    BY <1>5
  <2>3. CASE server["full"] = "rejected"
    BY <1>3, <2>1, <2>2, <2>3 DEF FullStage
  <2>4. CASE server["full"] \in {"none", "wait", "failed"}
    BY <1>3, <2>1, <2>2, <2>4 DEF FullStage
  <2>5. CASE server["full"] \notin {"rejected", "none", "wait", "failed"}
    BY <1>3, <1>4, <2>1, <2>2, <2>5 DEF FullStage
  <2> QED
    BY <2>3, <2>4, <2>5
<1>6. CASE pc' # pc
  <2>1. server["full"] = "none" /\ "full" \notin cut /\ Still("full") /\ Joined("full")
    BY <1>6 DEF FullStage
  <2> QED
    BY <1>2, <1>6, <2>1 DEF FullStage
<1> QED
  BY <1>5, <1>6

\* What an end finds on its line, by what the stages say of it.
LEMMA HasMessage ==
  ASSUME NEW k, NEW step
  PROVE  /\ Has(k, "client", step) => Open(k, "client") /\ ~Still(k) /\ ~Broken(k) /\ \A m : ~Asks(k, m)
         /\ Has(k, "server", step) =>
              Open(k, "server") /\ ToServer(k) # <<>> /\ ~Still(k) /\ ~Broken(k) /\ \A m : ~Tells(k, m)
         /\ \A x, y : Has(k, "client", step) /\ Tells(k, Msg(x, y)) => x = step /\ What(k, "client") = y
         /\ \A x, y : Has(k, "server", step) /\ Asks(k, Msg(x, y)) => x = step /\ What(k, "server") = y
<1>1. \A x, y : Msg(x, y).step = x /\ Msg(x, y).what = y
  BY DEF Msg
<1>2. /\ Has(k, "client", step) => Open(k, "client") /\ ToClient(k) # <<>> /\ Head(ToClient(k)).step = step
      /\ Has(k, "server", step) => Open(k, "server") /\ ToServer(k) # <<>> /\ Head(ToServer(k)).step = step
      /\ What(k, "client") = Head(ToClient(k)).what /\ What(k, "server") = Head(ToServer(k)).what
  BY DEF Has, What, ToClient, ToServer
<1>3. ASSUME Has(k, "client", step)
      PROVE  Open(k, "client") /\ ~Still(k) /\ ~Broken(k) /\ \A m : ~Asks(k, m)
  BY <1>2, <1>3 DEF Still, Broken, Asks
<1>4. ASSUME Has(k, "server", step)
      PROVE  Open(k, "server") /\ ToServer(k) # <<>> /\ ~Still(k) /\ ~Broken(k) /\ \A m : ~Tells(k, m)
  BY <1>2, <1>4 DEF Still, Broken, Tells
<1>5. ASSUME NEW x, NEW y, Has(k, "client", step), Tells(k, Msg(x, y)) PROVE x = step /\ What(k, "client") = y
  <2>1. Head(ToClient(k)) = Msg(x, y)
    BY <1>5, OneMessage DEF Tells
  <2> QED
    BY <1>1, <1>2, <1>5, <2>1
<1>6. ASSUME NEW x, NEW y, Has(k, "server", step), Asks(k, Msg(x, y)) PROVE x = step /\ What(k, "server") = y
  <2>1. Head(ToServer(k)) = Msg(x, y)
    BY <1>6, OneMessage DEF Asks
  <2> QED
    BY <1>1, <1>2, <1>6, <2>1
<1> QED
  BY <1>3, <1>4, <1>5, <1>6

\* A receive ends only on a connection that one of its ends has closed.
LEMMA AtEndOnly ==
  ASSUME NEW k
  PROVE  /\ AtEnd(k, "client") => ~Joined(k)
         /\ AtEnd(k, "server") => ~Joined(k)
         /\ \A m : AtEnd(k, "client") /\ Tells(k, m) => ~Open(k, "client")
BY OneMessage DEF AtEnd, Joined, Tells, ToClient, Open, Other

\* Each step of the client keeps the stages.
LEMMA ClientKeepsStages ==
  ASSUME ConnectInv, ClientStep
  PROVE  ConnectInv'
<1> USE DEF ConnectInv
<1> DEFINE Lines == DOMAIN line' = Conns /\ \A j \in Conns : DOMAIN line'[j] = Sides
<1>1. "client" \in Sides /\ "server" \in Sides /\ Sides = {"client", "server"} /\ Conns = {"resume", "full"}
      /\ Other("client") = "server" /\ Other("server") = "client"
  BY DEF Sides, Conns, Other
<1>2. ASSUME Lines, cfg' = cfg, DOMAIN server' = Conns PROVE ConnectTypes'
  BY <1>2 DEF ConnectTypes
<1>3. CASE ResumeRequest
  <2>1. /\ Lines /\ line'["full"] = line["full"]
        /\ ToServer("resume")' = <<Msg("resume", cfg.program)>> /\ ToClient("resume")' = ToClient("resume")
    BY <1>1, <1>3 DEF ResumeRequest, ConnectTypes, ToServer, ToClient
  <2>2. /\ DOMAIN server' = Conns /\ server'["resume"] = "wait" /\ server'["full"] = server["full"]
    BY <1>1, <1>3 DEF ResumeRequest, ConnectTypes
  <2>3. /\ pc = "start" /\ pc' = "resuming" /\ UNCHANGED <<cfg, closedEnds, cut, reason, suite>>
    BY <1>3 DEF ResumeRequest
  <2>4. Still("resume") /\ Joined("resume")
    BY <2>3 DEF ResumeStage
  <2>5. ResumeStage'
    BY <2>1, <2>2, <2>3, <2>4 DEF ResumeStage, Still, Joined, Asks, Open, Msg
  <2>6. FullStage'
    BY <2>1, <2>2, <2>3, FullKept
  <2> QED
    BY <1>2, <2>1, <2>2, <2>3, <2>5, <2>6
<1>4. CASE ResumeAccepted
  <2>1. /\ Lines /\ line'["full"] = line["full"]
    BY <1>1, <1>4, LineRead DEF ResumeAccepted
  <2>2. /\ pc = "resuming" /\ pc' = "resumed" /\ UNCHANGED <<cfg, closedEnds, cut, reason, server, suite>>
        /\ Has("resume", "client", "accepted")
    BY <1>4 DEF ResumeAccepted
  <2>3. server["resume"] = "session"
    BY <2>2, HasMessage DEF ResumeStage
  <2>4. ResumeStage'
    BY <2>2, <2>3 DEF ResumeStage
  <2>5. FullStage'
    BY <2>1, <2>2, FullKept
  <2> QED
    BY <1>2, <2>1, <2>2, <2>4, <2>5 DEF ConnectTypes
<1>5. CASE ResumeRejected
  <2>1. /\ Lines /\ line'["full"] = line["full"]
    BY <1>1, <1>5, LineRead DEF ResumeRejected
  <2>2. /\ pc = "resuming" /\ pc' \in {"fallback", "rejected"} /\ UNCHANGED <<cfg, cut, server, suite>>
        /\ Has("resume", "client", "rejected") /\ reason' = What("resume", "client")
    BY <1>5 DEF ResumeRejected
  <2>3. server["resume"] = "rejected" /\ reason' # "none"
    BY <2>2, HasMessage DEF ResumeStage
  <2>4. ResumeStage'
    BY <2>2, <2>3 DEF ResumeStage
  <2>5. closedEnds' \in {closedEnds, closedEnds \cup {<<"resume", "client">>}}
    BY <1>5 DEF ResumeRejected, CloseEnd
  <2>6. FullStage'
    BY <2>1, <2>2, <2>5, FullKept
  <2> QED
    BY <1>2, <2>1, <2>2, <2>4, <2>6 DEF ConnectTypes
<1>6. CASE ResumeFails
  <2>1. /\ pc = "resuming" /\ pc' = "failed" /\ UNCHANGED <<cfg, line, cut, reason, server, suite>>
        /\ closedEnds' \in {closedEnds, closedEnds \cup {<<"resume", "client">>}}
        /\ AtEnd("resume", "client") \/ Has("resume", "client", "accepted")
    BY <1>6 DEF ResumeFails, CloseEnd
  <2>2. server["resume"] \in {"session", "failed"} \/ Broken("resume")
    BY <1>1, <2>1, HasMessage, AtEndOnly DEF ResumeStage
  <2>3. Broken("resume") => Broken("resume")'
    BY <2>1 DEF Broken, Still, ToClient, ToServer, Open
  <2>4. server["resume"] # "none"
    BY <2>1 DEF ResumeStage
  <2>5. ResumeStage'
    BY <2>1, <2>2, <2>3, <2>4 DEF ResumeStage
  <2>6. FullStage'
    BY <2>1, FullKept
  <2> QED
    BY <1>2, <2>1, <2>5, <2>6 DEF ConnectTypes
<1>7. CASE RunClient
  <2>1. /\ Lines /\ line'["resume"] = line["resume"] /\ ToClient("full")' = ToClient("full")
        /\ \/ pc' = "failed" /\ ToServer("full")' = ToServer("full")
           \/ pc' = "response" /\ ToServer("full")' = <<Msg("init", cfg.suite)>>
    BY <1>1, <1>7 DEF RunClient, ConnectTypes, ToServer, ToClient
  <2>2. /\ DOMAIN server' = Conns /\ server'["full"] = "wait" /\ server'["resume"] = server["resume"]
    BY <1>1, <1>7 DEF RunClient, ConnectTypes
  <2>3. /\ pc \in {"start", "fallback"} /\ UNCHANGED <<cfg, closedEnds, cut, reason, suite>>
    BY <1>7 DEF RunClient
  <2>4. Still("full") /\ Joined("full")
    BY <2>3 DEF FullStage
  <2>5. FullStage'
    BY <2>1, <2>2, <2>3, <2>4 DEF FullStage, Still, Joined, Asks, Open, Msg
  <2>6. ResumeStage'
    BY <2>1, <2>2, <2>3, ResumeKept
  <2> QED
    BY <1>2, <2>1, <2>2, <2>3, <2>5, <2>6
<1>8. CASE OnResponse
  <2>1. /\ pc = "response" /\ pc' = "accepted" /\ UNCHANGED <<cfg, closedEnds, cut, reason, server, suite>>
        /\ Has("full", "client", "response") /\ ReadThenSend("full", "client", Msg("confirm", cfg.identity))
    BY <1>8 DEF OnResponse
  <2>2. /\ Lines /\ line'["resume"] = line["resume"]
        /\ ToClient("full")' = Tail(ToClient("full"))
        /\ ToServer("full")' = Append(ToServer("full"), Msg("confirm", cfg.identity))
    BY <1>1, <2>1, LineAnswered DEF ToClient, ToServer
  <2>3. /\ server["full"] = "confirm" /\ suite = cfg.suite
        /\ Tells("full", Msg("response", cfg.suite)) /\ Joined("full")
    BY <2>1, HasMessage DEF FullStage
  <2>4. Asks("full", Msg("confirm", cfg.identity))'
    BY <2>1, <2>2, <2>3, OneMessage DEF Asks, Tells, Msg
  <2>5. FullStage'
    BY <2>1, <2>3, <2>4 DEF FullStage, Joined, Open
  <2>6. ResumeStage'
    BY <2>1, <2>2, ResumeKept
  <2> QED
    BY <1>2, <2>1, <2>2, <2>5, <2>6 DEF ConnectTypes
<1>9. CASE OnAccepted
  <2>1. /\ pc = "accepted" /\ pc' = "session" /\ UNCHANGED <<cfg, closedEnds, cut, reason, server, suite>>
        /\ Has("full", "client", "accepted") /\ line' = Reads("full", "client")
    BY <1>9 DEF OnAccepted
  <2>2. /\ Lines /\ line'["resume"] = line["resume"]
    BY <1>1, <2>1, LineRead
  <2>3. server["full"] = "session" /\ suite = cfg.suite
    BY <2>1, HasMessage DEF FullStage
  <2>4. FullStage'
    BY <2>1, <2>3 DEF FullStage
  <2>5. ResumeStage'
    BY <2>1, <2>2, ResumeKept
  <2> QED
    BY <1>2, <2>1, <2>2, <2>4, <2>5 DEF ConnectTypes
<1>10. CASE OnRejected
  <2>1. /\ pc \in {"response", "accepted"} /\ pc' = "rejected" /\ UNCHANGED <<cfg, cut, server, suite>>
        /\ closedEnds' = closedEnds \cup {<<"full", "client">>} /\ reason' = What("full", "client")
        /\ Has("full", "client", "rejected") /\ line' = Reads("full", "client")
    BY <1>10 DEF OnRejected, CloseEnd
  <2>2. /\ Lines /\ line'["resume"] = line["resume"]
    BY <1>1, <2>1, LineRead
  <2>3. server["full"] = "rejected" /\ reason' # "none"
    BY <2>1, HasMessage DEF FullStage
  <2>4. FullStage'
    BY <2>1, <2>3 DEF FullStage
  <2>5. ResumeStage'
    BY <1>1, <2>1, <2>2, <2>3, ResumeKept
  <2> QED
    BY <1>2, <2>1, <2>2, <2>4, <2>5 DEF ConnectTypes
<1>11. CASE RunClientFails
  <2>1. /\ pc \in {"response", "accepted"} /\ pc' = "failed" /\ UNCHANGED <<cfg, line, cut, reason, server, suite>>
        /\ closedEnds' = closedEnds \cup {<<"full", "client">>}
        /\ AtEnd("full", "client") \/ Has("full", "client", pc)
    BY <1>11 DEF RunClientFails, CloseEnd
  <2>2. \/ server["full"] = "confirm" /\ suite = cfg.suite /\ ToServer("full") = <<>>
        \/ server["full"] = "session" /\ suite = cfg.suite
        \/ server["full"] = "failed"
        \/ Broken("full") /\ server["full"] # "none"
           /\ (server["full"] \in {"session", "confirm"} => suite = cfg.suite)
    BY <1>1, <2>1, HasMessage, AtEndOnly DEF FullStage, Still, Asks, Tells
  <2>3. /\ Broken("full") => Broken("full")'
        /\ ToServer("full")' = ToServer("full")
    BY <2>1 DEF Broken, Still, ToClient, ToServer, Open
  <2>4. FullStage'
    BY <2>1, <2>2, <2>3 DEF FullStage
  <2>5. ResumeStage'
    BY <1>1, <2>1, ResumeKept
  <2> QED
    BY <1>2, <2>1, <2>4, <2>5 DEF ConnectTypes
<1> QED
  BY <1>3, <1>4, <1>5, <1>6, <1>7, <1>8, <1>9, <1>10, <1>11 DEF ClientStep

\* A rejection is the one message its client will find.
LEMMA RejectTells ==
  ASSUME ConnectTypes, NEW k \in Conns, NEW code, Reject(k, code)
  PROVE  /\ DOMAIN line' = Conns /\ \A j \in Conns : DOMAIN line'[j] = Sides
         /\ \A j \in Conns \ {k} : line'[j] = line[j] /\ server'[j] = server[j]
         /\ DOMAIN server' = Conns /\ server'[k] = "rejected"
         /\ closedEnds' = closedEnds \cup {<<k, "server">>}
         /\ Joined(k) /\ (Still(k) \/ \E m : Asks(k, m)) => Tells(k, Msg("rejected", code))' /\ Open(k, "client")'
         /\ Broken(k) /\ cut' = cut => Broken(k)'
<1>1. /\ DOMAIN line' = Conns /\ \A j \in Conns : DOMAIN line'[j] = Sides
      /\ \A j \in Conns \ {k} : line'[j] = line[j] /\ server'[j] = server[j]
      /\ DOMAIN server' = Conns /\ server'[k] = "rejected"
      /\ closedEnds' = closedEnds \cup {<<k, "server">>}
  BY DEF ConnectTypes, Reject, CloseEnd, Sides
<1>2. /\ ToServer(k)' = IF ToServer(k) = <<>> THEN ToServer(k) ELSE Tail(ToServer(k))
      /\ ToClient(k)' = IF Open(k, "server") THEN Append(ToClient(k), Msg("rejected", code)) ELSE ToClient(k)
  BY DEF ConnectTypes, Reject, Sides, ToClient, ToServer
<1>3. /\ Open(k, "client")' <=> Open(k, "client")
      /\ Open(k, "server")' => Open(k, "server")
  BY <1>1 DEF Open
<1>4. Joined(k) /\ (Still(k) \/ \E m : Asks(k, m)) => Tells(k, Msg("rejected", code))' /\ Open(k, "client")'
  <2>1. Msg("rejected", code)' = Msg("rejected", code)
    BY DEF Msg
  <2> QED
    BY <1>2, <1>3, <2>1, OneMessage DEF Joined, Still, Asks, Tells
<1>5. Broken(k) /\ cut' = cut => Broken(k)'
  BY <1>2, <1>3 DEF Broken, Still
<1> QED
  BY <1>1, <1>4, <1>5

\* Each step of the servers keeps the stages.
LEMMA ServerKeepsStages ==
  ASSUME ConnectInv, ServerStep
  PROVE  ConnectInv'
<1> USE DEF ConnectInv
<1> DEFINE Lines == DOMAIN line' = Conns /\ \A j \in Conns : DOMAIN line'[j] = Sides
<1>1. "client" \in Sides /\ "server" \in Sides /\ Sides = {"client", "server"} /\ Conns = {"resume", "full"}
      /\ Other("client") = "server" /\ Other("server") = "client"
  BY DEF Sides, Conns, Other
<1>2. ASSUME Lines, cfg' = cfg, DOMAIN server' = Conns PROVE ConnectTypes'
  BY <1>2 DEF ConnectTypes
<1>3. CASE ResumeServer
  <2>1. /\ server["resume"] = "wait" /\ Has("resume", "server", "resume") /\ line' = Reads("resume", "server")
        /\ UNCHANGED <<cfg, closedEnds, cut, pc, reason, suite>>
        /\ DOMAIN server' = Conns /\ server'["resume"] = "lookup" /\ server'["full"] = server["full"]
    BY <1>1, <1>3 DEF ResumeServer, ConnectTypes
  <2>2. /\ Lines /\ line'["full"] = line["full"]
        /\ ToServer("resume")' = Tail(ToServer("resume")) /\ ToClient("resume")' = ToClient("resume")
    BY <1>1, <2>1, LineRead DEF ToServer, ToClient
  <2>3. pc = "resuming" /\ Asks("resume", Msg("resume", cfg.program)) /\ Joined("resume")
    BY <2>1, HasMessage DEF ResumeStage
  <2>4. Still("resume")'
    BY <2>2, <2>3, OneMessage DEF Asks, Still
  <2>5. ResumeStage'
    BY <2>1, <2>3, <2>4 DEF ResumeStage, Joined, Open
  <2>6. FullStage'
    BY <2>1, <2>2, FullKept
  <2> QED
    BY <1>2, <2>1, <2>2, <2>5, <2>6
<1>4. CASE LookupOk
  <2>0. /\ server["resume"] = "lookup" /\ UNCHANGED <<cfg, closedEnds, cut, pc, reason, suite>>
        /\ Joined("resume")' <=> Joined("resume")
    BY <1>4 DEF LookupOk, Joined, Open
  <2>1. /\ DOMAIN server' = Conns /\ server'["full"] = server["full"] /\ Lines /\ line'["full"] = line["full"]
        /\ Open("resume", "server") =>
             /\ server'["resume"] = "session" /\ ToServer("resume")' = ToServer("resume")
             /\ ToClient("resume")' = Append(ToClient("resume"), Msg("accepted", ""))
        /\ ~Open("resume", "server") => server'["resume"] = "failed" /\ line' = line
    <3>1. CASE Open("resume", "server")
      <4>1. /\ line' = [line EXCEPT !["resume"]["client"] = Append(@, Msg("accepted", ""))]
            /\ server' = [server EXCEPT !["resume"] = "session"]
        BY <1>4, <3>1 DEF LookupOk
      <4> QED
        BY <1>1, <3>1, <4>1 DEF ConnectTypes, ToClient, ToServer
    <3>2. CASE ~Open("resume", "server")
      <4>1. line' = line /\ server' = [server EXCEPT !["resume"] = "failed"]
        BY <1>4, <3>2 DEF LookupOk
      <4> QED
        BY <1>1, <3>2, <4>1 DEF ConnectTypes
    <3> QED
      BY <3>1, <3>2
  <2>2. \/ pc = "resuming" /\ Still("resume") /\ Joined("resume")
        \/ Broken("resume") /\ pc \notin {"start", "resumed"}
    BY <2>0 DEF ResumeStage
  <2>3. ASSUME pc = "resuming" /\ Still("resume") /\ Joined("resume") PROVE ResumeStage'
    <3>1. Tells("resume", Msg("accepted", ""))' /\ server'["resume"] = "session"
      BY <2>1, <2>3, OneMessage DEF Still, Joined, Tells, Msg
    <3>2. pc' = "resuming" /\ Joined("resume")'
      BY <2>0, <2>3
    <3> QED
      BY <3>1, <3>2 DEF ResumeStage
  <2>4. ASSUME Broken("resume") /\ pc \notin {"start", "resumed"} PROVE ResumeStage'
    <3>1. Broken("resume")' /\ server'["resume"] = "failed"
      BY <2>0, <2>1, <2>4 DEF Broken, Still, ToClient, ToServer, Open
    <3>2. pc' \notin {"start", "resumed"}
      BY <2>0, <2>4
    <3> QED
      BY <3>1, <3>2 DEF ResumeStage
  <2>5. FullStage'
    BY <2>0, <2>1, FullKept
  <2> QED
    BY <1>2, <2>0, <2>1, <2>2, <2>3, <2>4, <2>5
<1>5. ASSUME NEW code \in RejectReasons, LookupFails(code) PROVE ConnectInv'
  <2>1. /\ server["resume"] = "lookup" /\ Reject("resume", code) /\ UNCHANGED <<cfg, cut, pc, reason, suite>>
        /\ code # "none"
    BY <1>5, ConnectAssumption DEF LookupFails
  <2>2. /\ Lines /\ line'["full"] = line["full"] /\ server'["full"] = server["full"]
        /\ DOMAIN server' = Conns /\ server'["resume"] = "rejected"
        /\ closedEnds' = closedEnds \cup {<<"resume", "server">>}
        /\ Joined("resume") /\ Still("resume") => Tells("resume", Msg("rejected", code))' /\ Open("resume", "client")'
        /\ Broken("resume") => Broken("resume")'
    BY <1>1, <2>1, RejectTells
  <2>3. \/ pc = "resuming" /\ Still("resume") /\ Joined("resume")
        \/ Broken("resume") /\ pc \notin {"start", "resumed"}
    BY <2>1 DEF ResumeStage
  <2>4. ResumeStage'
    BY <2>1, <2>2, <2>3 DEF ResumeStage
  <2>5. FullStage'
    BY <1>1, <2>1, <2>2, FullKept
  <2> QED
    BY <1>2, <2>1, <2>2, <2>4, <2>5
<1>6. CASE OnInit
  <2>1. /\ server["full"] = "wait" /\ Has("full", "server", "init") /\ suite' = What("full", "server")
        /\ ReadThenSend("full", "server", Msg("response", suite'))
        /\ UNCHANGED <<cfg, closedEnds, cut, pc, reason>>
        /\ DOMAIN server' = Conns /\ server'["full"] = "confirm" /\ server'["resume"] = server["resume"]
    BY <1>1, <1>6 DEF OnInit, ConnectTypes
  <2>2. /\ Lines /\ line'["resume"] = line["resume"]
        /\ ToServer("full")' = Tail(ToServer("full"))
        /\ ToClient("full")' = Append(ToClient("full"), Msg("response", suite'))
    BY <1>1, <2>1, LineAnswered DEF ToClient, ToServer
  <2>3. pc = "response" /\ Asks("full", Msg("init", cfg.suite)) /\ Joined("full")
    BY <2>1, HasMessage DEF FullStage, Still
  <2>4. suite' = cfg.suite
    BY <2>1, <2>3, HasMessage
  <2>5. Tells("full", Msg("response", cfg.suite))'
    BY <2>1, <2>2, <2>3, <2>4, OneMessage DEF Asks, Tells, Msg
  <2>6. FullStage'
    BY <2>1, <2>3, <2>4, <2>5 DEF FullStage, Joined, Open
  <2>7. ResumeStage'
    BY <2>1, <2>2, ResumeKept
  <2> QED
    BY <1>2, <2>1, <2>2, <2>6, <2>7
<1>7. ASSUME NEW code, code # "none", Reject("full", code), UNCHANGED <<cfg, cut, pc, reason, suite>>,
             \/ server["full"] = "wait" /\ Has("full", "server", "init")
             \/ server["full"] = "confirm" /\ Has("full", "server", "confirm")
      PROVE  ConnectInv'
  <2>2. /\ Lines /\ line'["resume"] = line["resume"] /\ server'["resume"] = server["resume"]
        /\ DOMAIN server' = Conns /\ server'["full"] = "rejected"
        /\ closedEnds' = closedEnds \cup {<<"full", "server">>}
        /\ Joined("full") /\ (\E m : Asks("full", m)) =>
             Tells("full", Msg("rejected", code))' /\ Open("full", "client")'
    BY <1>1, <1>7, RejectTells
  <2>3. pc \in {"response", "accepted"} /\ (\E m : Asks("full", m)) /\ Joined("full")
    BY <1>7, HasMessage DEF FullStage, Still
  <2>4. FullStage'
    BY <1>7, <2>2, <2>3 DEF FullStage
  <2>5. ResumeStage'
    BY <1>1, <1>7, <2>2, ResumeKept
  <2> QED
    BY <1>2, <1>7, <2>2, <2>4, <2>5
<1>8. CASE OnInitNoCommonSuite
  BY <1>7, <1>8 DEF OnInitNoCommonSuite
<1>9. CASE OnConfirmRejects
  BY <1>7, <1>9 DEF OnConfirmRejects
<1>10. CASE OnInitWrongKey
  <2>1. /\ server["full"] = "wait" /\ Has("full", "server", "init") /\ line' = Reads("full", "server")
        /\ UNCHANGED <<cfg, cut, pc, reason, suite>> /\ closedEnds' = closedEnds \cup {<<"full", "server">>}
        /\ DOMAIN server' = Conns /\ server'["full"] = "failed" /\ server'["resume"] = server["resume"]
    BY <1>1, <1>10 DEF OnInitWrongKey, CloseEnd, ConnectTypes
  <2>2. /\ Lines /\ line'["resume"] = line["resume"]
        /\ ToServer("full")' = Tail(ToServer("full")) /\ ToClient("full")' = ToClient("full")
    BY <1>1, <2>1, LineRead DEF ToServer, ToClient
  <2>3. pc = "response" /\ Asks("full", Msg("init", cfg.suite)) /\ Joined("full")
    BY <2>1, HasMessage DEF FullStage, Still
  <2>4. Still("full")' /\ ~Open("full", "server")'
    BY <2>1, <2>2, <2>3, OneMessage DEF Asks, Still, Open
  <2>5. FullStage'
    BY <2>1, <2>3, <2>4 DEF FullStage
  <2>6. ResumeStage'
    BY <1>1, <2>1, <2>2, ResumeKept
  <2> QED
    BY <1>2, <2>1, <2>2, <2>5, <2>6
<1>11. CASE OnConfirm
  <2>1. /\ server["full"] = "confirm" /\ Has("full", "server", "confirm")
        /\ ReadThenSend("full", "server", Msg("accepted", ""))
        /\ UNCHANGED <<cfg, closedEnds, cut, pc, reason, suite>>
        /\ DOMAIN server' = Conns /\ server'["full"] = "session" /\ server'["resume"] = server["resume"]
    BY <1>1, <1>11 DEF OnConfirm, ConnectTypes
  <2>2. /\ Lines /\ line'["resume"] = line["resume"]
        /\ ToServer("full")' = Tail(ToServer("full"))
        /\ ToClient("full")' = Append(ToClient("full"), Msg("accepted", ""))
    <3> DEFINE m == Msg("accepted", "")
    <3>1. ReadThenSend("full", "server", m)
      BY <2>1
    <3> HIDE DEF m
    <3>2. /\ Lines /\ line'["resume"] = line["resume"]
          /\ line'["full"]["server"] = Tail(line["full"]["server"])
          /\ line'["full"]["client"] = Append(line["full"]["client"], m)
      BY <1>1, <3>1, LineAnswered
    <3> QED
      BY <3>2 DEF ToClient, ToServer, m
  <2>3. pc = "accepted" /\ suite = cfg.suite /\ Asks("full", Msg("confirm", cfg.identity)) /\ Joined("full")
    BY <2>1, HasMessage DEF FullStage
  <2>4. Tells("full", Msg("accepted", ""))'
    BY <2>2, <2>3, OneMessage DEF Asks, Tells, Msg
  <2>5. FullStage'
    BY <2>1, <2>3, <2>4 DEF FullStage, Joined, Open
  <2>6. ResumeStage'
    BY <2>1, <2>2, ResumeKept
  <2> QED
    BY <1>2, <2>1, <2>2, <2>5, <2>6
<1>12. CASE ServerFails("resume")
  <2>1. /\ server["resume"] \in {"wait", "confirm"} /\ AtEnd("resume", "server")
        /\ UNCHANGED <<cfg, line, cut, pc, reason, suite>> /\ closedEnds' = closedEnds \cup {<<"resume", "server">>}
        /\ DOMAIN server' = Conns /\ server'["resume"] = "failed" /\ server'["full"] = server["full"]
    BY <1>1, <1>12 DEF ServerFails, CloseEnd, ConnectTypes
  <2>2. Broken("resume") /\ pc \notin {"start", "resumed"}
    BY <2>1, AtEndOnly DEF ResumeStage
  <2>3. Broken("resume")'
    BY <2>1, <2>2 DEF Broken, Still, ToClient, ToServer, Open
  <2>4. ResumeStage'
    BY <2>1, <2>2, <2>3 DEF ResumeStage
  <2>5. FullStage'
    BY <1>1, <2>1, FullKept
  <2> QED
    BY <1>2, <2>1, <2>4, <2>5 DEF ConnectTypes
<1>13. CASE ServerFails("full")
  <2>1. /\ server["full"] \in {"wait", "confirm"} /\ AtEnd("full", "server")
        /\ UNCHANGED <<cfg, line, cut, pc, reason, suite>> /\ closedEnds' = closedEnds \cup {<<"full", "server">>}
        /\ DOMAIN server' = Conns /\ server'["full"] = "failed" /\ server'["resume"] = server["resume"]
    BY <1>1, <1>13 DEF ServerFails, CloseEnd, ConnectTypes
  <2>2. pc = "failed" \/ (Broken("full") /\ pc \in {"response", "accepted", "rejected", "failed"})
    BY <2>1, AtEndOnly DEF FullStage
  <2>3. Broken("full") => Broken("full")'
    BY <2>1 DEF Broken, Still, ToClient, ToServer, Open
  <2>4. FullStage'
    BY <2>1, <2>2, <2>3 DEF FullStage
  <2>5. ResumeStage'
    BY <1>1, <2>1, ResumeKept
  <2> QED
    BY <1>2, <2>1, <2>4, <2>5 DEF ConnectTypes
\* A lookup that throws leaves no answer, only a closed end.
<1>14. CASE LookupThrows
  <2>1. /\ server["resume"] = "lookup"
        /\ UNCHANGED <<cfg, line, cut, pc, reason, suite>> /\ closedEnds' = closedEnds \cup {<<"resume", "server">>}
        /\ DOMAIN server' = Conns /\ server'["resume"] = "failed" /\ server'["full"] = server["full"]
    BY <1>1, <1>14 DEF LookupThrows, CloseEnd, ConnectTypes
  <2>2. \/ pc = "resuming" /\ Still("resume") /\ Joined("resume")
        \/ Broken("resume") /\ pc \notin {"start", "resumed"}
    BY <2>1 DEF ResumeStage
  <2>3. (Still("resume") => Still("resume")') /\ ~Open("resume", "server")' /\ (Broken("resume") => Broken("resume")')
    BY <2>1 DEF Broken, Still, ToClient, ToServer, Open
  <2>4. ResumeStage'
    BY <2>1, <2>2, <2>3 DEF ResumeStage
  <2>5. FullStage'
    BY <1>1, <2>1, FullKept
  <2> QED
    BY <1>2, <2>1, <2>4, <2>5 DEF ConnectTypes
\* Nor does a confirm whose verification throws.
<1>15. CASE OnConfirmThrows
  <2>1. /\ server["full"] = "confirm" /\ Has("full", "server", "confirm") /\ line' = Reads("full", "server")
        /\ UNCHANGED <<cfg, cut, pc, reason, suite>> /\ closedEnds' = closedEnds \cup {<<"full", "server">>}
        /\ DOMAIN server' = Conns /\ server'["full"] = "failed" /\ server'["resume"] = server["resume"]
    BY <1>1, <1>15 DEF OnConfirmThrows, CloseEnd, ConnectTypes
  <2>2. /\ Lines /\ line'["resume"] = line["resume"]
        /\ ToServer("full")' = Tail(ToServer("full")) /\ ToClient("full")' = ToClient("full")
    BY <1>1, <2>1, LineRead DEF ToServer, ToClient
  <2>3. pc = "accepted" /\ Asks("full", Msg("confirm", cfg.identity)) /\ Joined("full")
    BY <2>1, HasMessage DEF FullStage, Still
  <2>4. Still("full")' /\ ~Open("full", "server")'
    BY <2>1, <2>2, <2>3, OneMessage DEF Asks, Still, Open
  <2>5. FullStage'
    BY <2>1, <2>3, <2>4 DEF FullStage
  <2>6. ResumeStage'
    BY <1>1, <2>1, <2>2, ResumeKept
  <2> QED
    BY <1>2, <2>1, <2>2, <2>5, <2>6
<1> QED
  BY <1>1, <1>3, <1>4, <1>5, <1>6, <1>8, <1>9, <1>10, <1>11, <1>12, <1>13, <1>14, <1>15 DEF ServerStep

\* A connection that breaks is lost to both ends, the other is as it was.
LEMMA CutKeepsStages ==
  ASSUME ConnectInv, NEW k \in Conns, Cut(k)
  PROVE  ConnectInv'
<1>1. /\ server[k] # "none" /\ UNCHANGED <<cfg, pc, reason, server, suite>> /\ cut' = cut \cup {k}
      /\ closedEnds' = closedEnds \cup {<<k, "client">>, <<k, "server">>}
      /\ line' = [line EXCEPT ![k] = [s \in Sides |-> <<>>]]
  BY DEF Cut
<1>2. ConnectTypes' /\ Broken(k)' /\ \A j \in Conns \ {k} : line'[j] = line[j]
  BY <1>1 DEF ConnectInv, ConnectTypes, Broken, Still, ToClient, ToServer, Open, Sides
<1>3. CASE k = "resume"
  <2>1. pc # "start" /\ (pc = "resumed" => server["resume"] = "session")
    BY <1>1, <1>3 DEF ConnectInv, ResumeStage
  <2>2. ResumeStage'
    BY <1>1, <1>2, <1>3, <2>1 DEF ResumeStage
  <2>3. line'["full"] = line["full"] /\ \A s \in Sides : <<"full", s>> \in closedEnds' <=> <<"full", s>> \in closedEnds
    BY <1>1, <1>2, <1>3 DEF Conns
  <2>4. FullStage'
    BY <1>1, <1>3, <2>3, FullKept DEF ConnectInv
  <2> QED
    BY <1>2, <2>2, <2>4 DEF ConnectInv
<1>4. CASE k = "full"
  <2>1. /\ pc \in {"response", "accepted", "session", "rejected", "failed"}
        /\ server["full"] \in {"session", "confirm"} => suite = cfg.suite
        /\ pc = "session" => server["full"] = "session"
    BY <1>1, <1>4 DEF ConnectInv, FullStage
  <2>2. FullStage'
    BY <1>1, <1>2, <1>4, <2>1 DEF FullStage
  <2>3. line'["resume"] = line["resume"]
        /\ \A s \in Sides : <<"resume", s>> \in closedEnds' <=> <<"resume", s>> \in closedEnds
    BY <1>1, <1>2, <1>4 DEF Conns
  <2>4. ResumeStage'
    BY <1>1, <1>4, <2>3, ResumeKept DEF ConnectInv
  <2> QED
    BY <1>2, <2>2, <2>4 DEF ConnectInv
<1> QED
  BY <1>3, <1>4 DEF Conns

\* Every run of a client and its servers is in one of the stages.
LEMMA StagesKept == ConnectSpec => []ConnectInv
<1>1. ConnectInit => ConnectInv
  <2> SUFFICES ASSUME ConnectInit PROVE ConnectInv
    OBVIOUS
  <2>1. \A k \in Conns : Still(k) /\ Joined(k) /\ server[k] = "none" /\ k \notin cut
    BY DEF ConnectInit, Still, Joined, ToClient, ToServer, Open, Sides
  <2>2. ConnectTypes /\ pc = "start"
    BY DEF ConnectInit, ConnectTypes
  <2> QED
    BY <2>1, <2>2 DEF ConnectInv, ResumeStage, FullStage, Conns
<1>2. ConnectInv /\ [ConnectNext]_connectVars => ConnectInv'
  <2>1. ConnectInv /\ UNCHANGED connectVars => ConnectInv'
    BY DEF connectVars, ConnectInv, ConnectTypes, ResumeStage, FullStage, Still, Joined, Broken, Asks, Tells,
           ToClient, ToServer, Open
  <2> QED
    BY <2>1, ClientKeepsStages, ServerKeepsStages, CutKeepsStages DEF ConnectNext
<1> QED
  BY <1>1, <1>2, PTL DEF ConnectSpec

\* runClient and resumeClient: whoever has a session has it with a server run
\* that has it too, under the suite of its own key, however connections break
\* and whatever the configurations are.
THEOREM SessionIsShared == ConnectSpec => []SessionShared
<1>1. ConnectInv => SessionShared
  BY DEF ConnectInv, ResumeStage, FullStage, SessionShared
<1> QED
  BY <1>1, StagesKept, PTL

\* sendRejected: on connections that do not break, a client that is refused
\* reads the refusal before it sees the connection close.
THEOREM RejectionSeen == ConnectSpec => []RejectionIsSeen
<1>1. ConnectInv => RejectionIsSeen
  BY DEF ConnectInv, ResumeStage, FullStage, RejectionIsSeen, ClientEnded, Broken
<1> QED
  BY <1>1, StagesKept, PTL

=============================================================================
