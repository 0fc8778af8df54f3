--------------------------- MODULE PipelineProofs ---------------------------
(* Theorems about the home server's policy, alone and under the pipeline. *)
EXTENDS Pipeline, SequenceTheorems, WellFoundedInduction, TLAPS

-----------------------------------------------------------------------------
(* Policy messages are applied in order *)

\* Nothing applied so far is after the state's version and timestamp.
Covered ==
  \A i \in DOMAIN applied :
    \/ applied[i].policy_version < policyVersion
    \/ applied[i].policy_version = policyVersion /\ applied[i].timestamp <= lastTimestamp

PolicyInv ==
  /\ applied \in Seq(PolicyMessages)
  /\ policyVersion \in Int /\ lastTimestamp \in Int
  /\ Covered
  /\ AppliedInOrder

\* A fresh policy has applied nothing.
LEMMA PolicyInitInv == PolicyInit => PolicyInv
BY DEF PolicyInit, PolicyInv, Covered, AppliedInOrder

\* A message that is not stale is after everything applied before it.
LEMMA NotStaleIsAfter ==
  ASSUME PolicyInv, NEW m \in PolicyMessages, ~Stale(m), NEW i \in DOMAIN applied
  PROVE  Before(applied[i], m)
<1>1. applied[i] \in PolicyMessages
  BY DEF PolicyInv
<1>2. /\ applied[i].policy_version \in Int /\ applied[i].timestamp \in Int
      /\ m.policy_version \in Int /\ m.timestamp \in Int
  BY <1>1, PolicyAssumption
<1> QED
  BY <1>2 DEF PolicyInv, Covered, Stale, Before

\* apply keeps the messages in order, and a refused message changes nothing.
LEMMA PolicyNextInv == PolicyInv /\ [PolicyNext]_policyVars => PolicyInv'
<1> SUFFICES ASSUME PolicyInv, [PolicyNext]_policyVars PROVE PolicyInv'
  OBVIOUS
<1>1. ASSUME NEW m \in PolicyMessages, Apply(m) PROVE PolicyInv'
  <2>1. /\ ~Stale(m) /\ applied' = Append(applied, m)
        /\ policyVersion' = m.policy_version /\ lastTimestamp' = m.timestamp
    BY <1>1 DEF Apply, Accepts
  <2>2. applied \in Seq(PolicyMessages) /\ applied' \in Seq(PolicyMessages)
    BY <2>1 DEF PolicyInv
  <2>3. m.policy_version \in Int /\ m.timestamp \in Int
    BY PolicyAssumption
  <2>4. /\ DOMAIN applied' = 1..(Len(applied) + 1)
        /\ applied'[Len(applied) + 1] = m
        /\ \A i \in DOMAIN applied : applied'[i] = applied[i]
        /\ DOMAIN applied = 1..Len(applied) /\ Len(applied) \in Nat
    BY <2>1, <2>2
  <2>5. \A i \in DOMAIN applied : Before(applied[i], m)
    BY <2>1, NotStaleIsAfter
  <2>6. Covered'
    <3> SUFFICES ASSUME NEW i \in DOMAIN applied'
                 PROVE  \/ applied'[i].policy_version < policyVersion'
                        \/ applied'[i].policy_version = policyVersion'
                           /\ applied'[i].timestamp <= lastTimestamp'
      BY DEF Covered
    <3>1. CASE i \in DOMAIN applied
      <4>1. applied[i] \in PolicyMessages
        BY <2>2, <3>1
      <4>2. applied[i].timestamp \in Int
        BY <4>1, PolicyAssumption
      <4> QED
        BY <2>1, <2>3, <2>4, <2>5, <3>1, <4>2 DEF Before
    <3>2. CASE i = Len(applied) + 1
      BY <2>1, <2>3, <2>4, <3>2
    <3> QED
      BY <2>4, <3>1, <3>2
  <2>7. AppliedInOrder'
    <3> SUFFICES ASSUME NEW i \in DOMAIN applied', NEW j \in DOMAIN applied', i < j
                 PROVE  Before(applied'[i], applied'[j])
      BY DEF AppliedInOrder, Before
    <3>1. i \in DOMAIN applied
      BY <2>4
    <3>2. CASE j \in DOMAIN applied
      BY <2>4, <3>1, <3>2 DEF PolicyInv, AppliedInOrder
    <3>3. CASE j = Len(applied) + 1
      BY <2>4, <2>5, <3>1, <3>3
    <3> QED
      BY <2>4, <3>2, <3>3
  <2> QED
    BY <2>1, <2>2, <2>3, <2>6, <2>7 DEF PolicyInv
<1>2. CASE UNCHANGED policyVars
  BY <1>2 DEF policyVars, PolicyInv, Covered, AppliedInOrder, Before
<1> QED
  BY <1>1, <1>2 DEF PolicyNext

\* For every set of messages, however they are delayed, repeated or reordered,
\* apply takes them in the order of version and timestamp and none twice.
THEOREM PolicyApplied == PolicySpec => []AppliedInOrder
<1>1. PolicyInv => AppliedInOrder
  BY DEF PolicyInv
<1> QED
  BY <1>1, PolicyInitInv, PolicyNextInv, PTL DEF PolicySpec

-----------------------------------------------------------------------------
(* The pipeline reads the policy and never changes it *)

\* A step of the home server is an apply or leaves the policy alone.
LEMMA NextIsPolicyStep == [Next]_vars => [PolicyNext]_policyVars
BY DEF Next, ServerStep, OtherStep, vars, policyVars

\* Whatever process calls run, the home server is a policy state.
THEOREM PipelinePolicy == Spec => PolicySpec
<1>1. Init => PolicyInit
  BY DEF Init
<1> QED
  BY <1>1, NextIsPolicyStep, PTL DEF Spec, PolicySpec

\* The policy messages of the whole home server are applied in order: the
\* pipeline's hooks, calls and inbox do not disturb them.
THEOREM AppliedInOrderHolds == Spec => []AppliedInOrder
BY PipelinePolicy, PolicyApplied, PTL

-----------------------------------------------------------------------------
(* Envelopes are judged in the order of the checks *)

\* A nonempty set of indices has a least one, and Min is it.
LEMMA LeastIndex ==
  ASSUME NEW S \in SUBSET Nat, S # {}
  PROVE  Min(S) \in S /\ \A i \in S : Min(S) <= i
<1> DEFINE Below == {p \in Nat \X Nat : p[1] < p[2]}
<1>1. IsWellFoundedOn(Below, Nat)
  BY NatLessThanWellFounded DEF OpToRel
<1>2. \A x, y \in Nat : y < x => <<y, x>> \in Below
  OBVIOUS
<1> HIDE DEF Below
<1>3. PICK x \in S : \A y \in S : ~(<<y, x>> \in Below)
  BY <1>1, WFMin
<1>4. ASSUME NEW y \in S PROVE x <= y
  <2>1. x \in Nat /\ y \in Nat
    OBVIOUS
  <2>2. ~(<<y, x>> \in Below)
    BY <1>3, Zenon
  <2>3. ~(y < x)
    BY <1>2, <2>1, <2>2, Zenon
  <2> QED
    BY <2>1, <2>3
<1> QED
  BY <1>4 DEF Min

\* FirstFailure answers a check that fails, with every one before it passed,
\* or "none" when all of them pass.
LEMMA FirstFailureFound ==
  ASSUME NEW checks, NEW n \in Nat, DOMAIN checks = 1..n, Len(checks) = n, NEW e,
         \A i \in 1..n : checks[i] # "none"
  PROVE  \/ FirstFailure(checks, e) = "none" /\ \A i \in 1..n : ~Fails(checks[i], e)
         \/ \E i \in 1..n :
              /\ FirstFailure(checks, e) = checks[i] /\ checks[i] # "none"
              /\ Fails(checks[i], e)
              /\ \A j \in 1..(i - 1) : ~Fails(checks[j], e)
<1> DEFINE I == {i \in 1..n : Fails(checks[i], e)}
<1>1. I \in SUBSET Nat
  OBVIOUS
<1>2. FirstFailure(checks, e) = LET x == IF I # {} THEN Min(I) ELSE 0
                                IN IF x = 0 THEN "none" ELSE checks[x]
  BY DEF FirstFailure, SelectInSeq
<1>3. CASE I = {}
  BY <1>2, <1>3
<1>4. CASE I # {}
  <2>1. Min(I) \in I /\ \A i \in I : Min(I) <= i
    BY <1>1, <1>4, LeastIndex
  <2> DEFINE m == Min(I)
  <2>2. m \in 1..n /\ Fails(checks[m], e) /\ FirstFailure(checks, e) = checks[m]
    BY <1>2, <1>4, <2>1
  <2>3. ASSUME NEW j \in 1..(m - 1) PROVE ~Fails(checks[j], e)
    <3>1. j \in 1..n /\ ~(m <= j)
      BY <2>2
    <3> QED
      BY <2>1, <3>1
  <2> QED
    BY <2>2, <2>3
<1> QED
  BY <1>3, <1>4

CheckNames ==
  {"seal_invalid", "envelope_expired", "no_session", "handshake_invalid",
   "session_mac_invalid", "domain_policy", "brief_seal_invalid", "brief_invalid"}

\* What a call that waits or has ended knows of its checks: the answer it waits
\* for agrees with what the hook said when it was asked.
Asked(c) ==
  /\ pc[c] = "key" =>
       IF answer[c] = env[c].key THEN "seal_invalid" \in passing[c] ELSE "seal_invalid" \in failing[c]
  /\ pc[c] = "session" =>
       /\ {"seal_invalid", "envelope_expired", "no_session"} \subseteq passing[c]
       /\ answer[c] = "retired" => "handshake_invalid" \in failing[c]

Judged(c) ==
  /\ pc[c] = "rejected" =>
       \E i \in DOMAIN Checks :
         /\ Checks[i] = verdict[c]
         /\ verdict[c] \in failing[c]
         /\ \A j \in 1..(i - 1) : Checks[j] \in passing[c] \cup {"handshake_invalid"}
  /\ pc[c] \in {"deliver", "lookup", "done"} =>
       Range(Checks) \subseteq passing[c] \cup {"handshake_invalid"}

JudgeInv ==
  /\ DOMAIN pc = Calls /\ DOMAIN answer = Calls /\ DOMAIN verdict = Calls
  /\ \A c \in Calls : Asked(c) /\ Judged(c)

\* A call that runs to its next hook has seen, in the state the step reaches,
\* which checks fail and which pass.
Looked(c) ==
  \A k \in CheckNames :
    /\ Fails(k, env[c]) => k \in failing'[c]
    /\ ~Fails(k, env[c]) => k \in passing'[c]

\* The table of checks, element by element.
LEMMA ChecksAre ==
  /\ DOMAIN Checks = 1..8 /\ Range(Checks) = CheckNames
  /\ Checks[1] = "seal_invalid" /\ Checks[2] = "envelope_expired"
  /\ Checks[3] = "no_session" /\ Checks[4] = "handshake_invalid"
  /\ Checks[5] = "session_mac_invalid" /\ Checks[6] = "domain_policy"
  /\ Checks[7] = "brief_seal_invalid" /\ Checks[8] = "brief_invalid"
<1>1. /\ DOMAIN Checks = 1..8
      /\ Checks[1] = "seal_invalid" /\ Checks[2] = "envelope_expired"
      /\ Checks[3] = "no_session" /\ Checks[4] = "handshake_invalid"
      /\ Checks[5] = "session_mac_invalid" /\ Checks[6] = "domain_policy"
      /\ Checks[7] = "brief_seal_invalid" /\ Checks[8] = "brief_invalid"
  BY DEF Checks
<1>2. 1..8 = {1, 2, 3, 4, 5, 6, 7, 8}
  OBVIOUS
<1>3. Range(Checks) = {Checks[i] : i \in {1, 2, 3, 4, 5, 6, 7, 8}}
  BY <1>1, <1>2 DEF Range
<1> QED
  BY <1>1, <1>3 DEF CheckNames

\* What a call has seen is never forgotten, and a step of the server that does
\* not start or follow the end of a call looks at every check.
LEMMA ObserveLooks ==
  ASSUME Observe, NEW c \in Calls
  PROVE  /\ failing[c] \subseteq failing'[c] /\ passing[c] \subseteq passing'[c]
         /\ ~Ended(pc[c]) /\ pc'[c] # "idle" /\ UNCHANGED <<hookVars, env>> => Looked(c)
<1> DEFINE during == ~Ended(pc[c]) /\ pc'[c] # "idle"
<1>1. /\ failing'[c] = failing[c] \cup
           (IF during THEN {k \in Range(Checks) : Fails(k, env[c])'} ELSE {})
      /\ passing'[c] = passing[c] \cup
           (IF during THEN {k \in Range(Checks) : ~Fails(k, env[c])'} ELSE {})
  BY DEF Observe
<1>2. failing[c] \subseteq failing'[c] /\ passing[c] \subseteq passing'[c]
  BY <1>1
<1>3. ASSUME during, UNCHANGED <<hookVars, env>> PROVE Looked(c)
  <2>1. \A k \in CheckNames : Fails(k, env[c])' <=> Fails(k, env[c])
    BY <1>3 DEF Fails, hookVars, CheckNames
  <2>2. /\ failing'[c] = failing[c] \cup {k \in CheckNames : Fails(k, env[c])'}
        /\ passing'[c] = passing[c] \cup {k \in CheckNames : ~Fails(k, env[c])'}
    BY <1>1, <1>3, ChecksAre
  <2> QED
    BY <2>1, <2>2, Zenon DEF Looked
<1> QED
  BY <1>2, <1>3

\* The checks of each stage, and what FirstFailure makes of them.
LEMMA FirstOfTwo ==
  ASSUME NEW e
  PROVE  LET f == FirstFailure(<<"envelope_expired", "no_session">>, e) IN
         \/ f = "none" /\ ~Fails("envelope_expired", e) /\ ~Fails("no_session", e)
         \/ f = "envelope_expired" /\ Fails("envelope_expired", e)
         \/ f = "no_session" /\ Fails("no_session", e) /\ ~Fails("envelope_expired", e)
<1> DEFINE q == <<"envelope_expired", "no_session">>
<1>1. /\ DOMAIN q = 1..2 /\ Len(q) = 2 /\ q[1] = "envelope_expired" /\ q[2] = "no_session"
      /\ 1..2 = {1, 2}
  OBVIOUS
<1>2. \A i \in 1..2 : q[i] # "none"
  BY <1>1
<1> HIDE DEF q
<1>3. \/ FirstFailure(q, e) = "none" /\ \A i \in 1..2 : ~Fails(q[i], e)
      \/ \E i \in 1..2 : /\ FirstFailure(q, e) = q[i] /\ q[i] # "none" /\ Fails(q[i], e)
                         /\ \A j \in 1..(i - 1) : ~Fails(q[j], e)
  BY <1>1, <1>2, FirstFailureFound
<1>4. 1 \in 1..(2 - 1)
  OBVIOUS
<1>5. \/ FirstFailure(q, e) = "none" /\ ~Fails("envelope_expired", e) /\ ~Fails("no_session", e)
      \/ FirstFailure(q, e) = "envelope_expired" /\ Fails("envelope_expired", e)
      \/ FirstFailure(q, e) = "no_session" /\ Fails("no_session", e) /\ ~Fails("envelope_expired", e)
  BY <1>1, <1>3, <1>4, Zenon
<1> QED
  BY <1>5 DEF q

LEMMA FirstOfFour ==
  ASSUME NEW e
  PROVE  LET f == FirstFailure(<<"session_mac_invalid", "domain_policy", "brief_seal_invalid",
                                 "brief_invalid">>, e) IN
         \/ /\ f = "none" /\ ~Fails("session_mac_invalid", e) /\ ~Fails("domain_policy", e)
            /\ ~Fails("brief_seal_invalid", e) /\ ~Fails("brief_invalid", e)
         \/ f = "session_mac_invalid" /\ Fails("session_mac_invalid", e)
         \/ f = "domain_policy" /\ Fails("domain_policy", e) /\ ~Fails("session_mac_invalid", e)
         \/ /\ f = "brief_seal_invalid" /\ Fails("brief_seal_invalid", e)
            /\ ~Fails("session_mac_invalid", e) /\ ~Fails("domain_policy", e)
         \/ /\ f = "brief_invalid" /\ Fails("brief_invalid", e)
            /\ ~Fails("session_mac_invalid", e) /\ ~Fails("domain_policy", e)
            /\ ~Fails("brief_seal_invalid", e)
<1> DEFINE q == <<"session_mac_invalid", "domain_policy", "brief_seal_invalid", "brief_invalid">>
<1>1. /\ DOMAIN q = 1..4 /\ Len(q) = 4 /\ q[1] = "session_mac_invalid" /\ q[2] = "domain_policy"
      /\ q[3] = "brief_seal_invalid" /\ q[4] = "brief_invalid" /\ 1..4 = {1, 2, 3, 4}
  OBVIOUS
<1>2. \A i \in 1..4 : q[i] # "none"
  BY <1>1
<1> HIDE DEF q
<1>3. \/ FirstFailure(q, e) = "none" /\ \A i \in 1..4 : ~Fails(q[i], e)
      \/ \E i \in 1..4 : /\ FirstFailure(q, e) = q[i] /\ q[i] # "none" /\ Fails(q[i], e)
                         /\ \A j \in 1..(i - 1) : ~Fails(q[j], e)
  BY <1>1, <1>2, FirstFailureFound
<1>4. /\ 1 \in 1..(2 - 1) /\ 1 \in 1..(3 - 1) /\ 2 \in 1..(3 - 1)
      /\ 1 \in 1..(4 - 1) /\ 2 \in 1..(4 - 1) /\ 3 \in 1..(4 - 1)
  OBVIOUS
<1>5. \/ /\ FirstFailure(q, e) = "none" /\ ~Fails("session_mac_invalid", e) /\ ~Fails("domain_policy", e)
         /\ ~Fails("brief_seal_invalid", e) /\ ~Fails("brief_invalid", e)
      \/ FirstFailure(q, e) = "session_mac_invalid" /\ Fails("session_mac_invalid", e)
      \/ FirstFailure(q, e) = "domain_policy" /\ Fails("domain_policy", e) /\ ~Fails("session_mac_invalid", e)
      \/ /\ FirstFailure(q, e) = "brief_seal_invalid" /\ Fails("brief_seal_invalid", e)
         /\ ~Fails("session_mac_invalid", e) /\ ~Fails("domain_policy", e)
      \/ /\ FirstFailure(q, e) = "brief_invalid" /\ Fails("brief_invalid", e)
         /\ ~Fails("session_mac_invalid", e) /\ ~Fails("domain_policy", e)
         /\ ~Fails("brief_seal_invalid", e)
  BY <1>1, <1>3, <1>4, Zenon
<1> QED
  BY <1>5 DEF q

\* A call that is rejected for a check it saw fail, after it saw the checks
\* before it pass.
LEMMA RejectedInOrder ==
  ASSUME JudgeInv, NEW c \in Calls, NEW i \in 1..8, Reject(c, Checks[i]),
         Checks[i] \in failing'[c],
         \A j \in 1..8 : j < i => Checks[j] \in passing'[c] \cup {"handshake_invalid"}
  PROVE  Asked(c)' /\ Judged(c)'
<1>1. verdict'[c] = Checks[i] /\ pc'[c] = "rejected"
  BY DEF Reject, JudgeInv
<1>2. \A j \in 1..(i - 1) : Checks[j] \in passing'[c] \cup {"handshake_invalid"}
  <2>1. \A j \in 1..(i - 1) : j \in 1..8 /\ j < i
    OBVIOUS
  <2> QED
    BY <2>1, Zenon
<1>3. i \in DOMAIN Checks
  BY ChecksAre
<1>4. Asked(c)'
  BY <1>1 DEF Asked
<1>5. \E k \in DOMAIN Checks :
        /\ Checks[k] = verdict'[c] /\ verdict'[c] \in failing'[c]
        /\ \A j \in 1..(k - 1) : Checks[j] \in passing'[c] \cup {"handshake_invalid"}
  BY <1>1, <1>2, <1>3, Zenon
<1>6. pc'[c] \notin {"deliver", "lookup", "done"}
  BY <1>1
<1>7. Judged(c)'
  BY <1>5, <1>6 DEF Judged
<1> QED
  BY <1>4, <1>7

\* Steps 4 to 7: what is rejected failed here, and what goes on passed.
LEMMA JudgedAfterSession ==
  ASSUME JudgeInv, NEW c \in Calls, AfterSession(c), Looked(c),
         {"seal_invalid", "envelope_expired", "no_session"} \subseteq passing'[c]
  PROVE  Asked(c)' /\ Judged(c)'
<1> DEFINE f == FirstFailure(<<"session_mac_invalid", "domain_policy", "brief_seal_invalid",
                               "brief_invalid">>, env[c])
           Passed(k) == k \in passing'[c]
           Failed(k) == k \in failing'[c]
<1>1. \/ /\ f = "none" /\ Passed("session_mac_invalid") /\ Passed("domain_policy")
         /\ Passed("brief_seal_invalid") /\ Passed("brief_invalid")
      \/ f = "session_mac_invalid" /\ Failed("session_mac_invalid")
      \/ f = "domain_policy" /\ Failed("domain_policy") /\ Passed("session_mac_invalid")
      \/ /\ f = "brief_seal_invalid" /\ Failed("brief_seal_invalid")
         /\ Passed("session_mac_invalid") /\ Passed("domain_policy")
      \/ /\ f = "brief_invalid" /\ Failed("brief_invalid")
         /\ Passed("session_mac_invalid") /\ Passed("domain_policy") /\ Passed("brief_seal_invalid")
  <2>1. /\ "session_mac_invalid" \in CheckNames /\ "domain_policy" \in CheckNames
        /\ "brief_seal_invalid" \in CheckNames /\ "brief_invalid" \in CheckNames
    BY DEF CheckNames
  <2> QED
    BY <2>1, FirstOfFour, Zenon DEF Looked
<1>2. Passed("seal_invalid") /\ Passed("envelope_expired") /\ Passed("no_session")
  OBVIOUS
<1>3. \/ f # "none" /\ Reject(c, f)
      \/ /\ f = "none" /\ pc' = [pc EXCEPT ![c] = IF env[c].to = <<>> THEN "done" ELSE "deliver"]
  BY DEF AfterSession
<1> HIDE DEF f
<1>4. CASE f = "none"
  <2>1. pc'[c] \in {"done", "deliver"}
    BY <1>3, <1>4 DEF JudgeInv
  <2>2. \A k \in CheckNames : k \in passing'[c] \cup {"handshake_invalid"}
    BY <1>1, <1>2, <1>4 DEF CheckNames
  <2>3. Range(Checks) \subseteq passing'[c] \cup {"handshake_invalid"}
    BY <2>2, ChecksAre
  <2>4. pc'[c] \notin {"key", "session", "rejected"}
    BY <2>1
  <2> QED
    BY <2>3, <2>4 DEF Asked, Judged
<1>5. CASE f # "none"
  <2>1. \A j \in 1..8 : j < 5 => Checks[j] \in passing'[c] \cup {"handshake_invalid"}
    <3>1. \A j \in 1..8 : j < 5 => j \in {1, 2, 3, 4}
      OBVIOUS
    <3> QED
      BY <1>2, <3>1, ChecksAre
  <2>2. /\ \A j \in 1..8 : j < 6 => j < 5 \/ j = 5
        /\ \A j \in 1..8 : j < 7 => j < 5 \/ j \in {5, 6}
        /\ \A j \in 1..8 : j < 8 => j < 5 \/ j \in {5, 6, 7}
        /\ 5 \in 1..8 /\ 6 \in 1..8 /\ 7 \in 1..8 /\ 8 \in 1..8
    OBVIOUS
  <2>3. CASE f = "session_mac_invalid"
    <3>1. Reject(c, Checks[5]) /\ Checks[5] \in failing'[c]
      BY <1>1, <1>3, <2>3, ChecksAre
    <3> QED
      BY <2>1, <2>2, <3>1, RejectedInOrder
  <2>4. CASE f = "domain_policy"
    <3>1. Reject(c, Checks[6]) /\ Checks[6] \in failing'[c] /\ Checks[5] \in passing'[c]
      BY <1>1, <1>3, <2>4, ChecksAre
    <3>2. \A j \in 1..8 : j < 6 => Checks[j] \in passing'[c] \cup {"handshake_invalid"}
      BY <2>1, <2>2, <3>1
    <3> QED
      BY <2>2, <3>1, <3>2, RejectedInOrder
  <2>5. CASE f = "brief_seal_invalid"
    <3>1. /\ Reject(c, Checks[7]) /\ Checks[7] \in failing'[c]
          /\ Checks[5] \in passing'[c] /\ Checks[6] \in passing'[c]
      BY <1>1, <1>3, <2>5, ChecksAre
    <3>2. \A j \in 1..8 : j < 7 => Checks[j] \in passing'[c] \cup {"handshake_invalid"}
      BY <2>1, <2>2, <3>1
    <3> QED
      BY <2>2, <3>1, <3>2, RejectedInOrder
  <2>6. CASE f = "brief_invalid"
    <3>1. /\ Reject(c, Checks[8]) /\ Checks[8] \in failing'[c]
          /\ Checks[5] \in passing'[c] /\ Checks[6] \in passing'[c] /\ Checks[7] \in passing'[c]
      BY <1>1, <1>3, <2>6, ChecksAre
    <3>2. \A j \in 1..8 : j < 8 => Checks[j] \in passing'[c] \cup {"handshake_invalid"}
      BY <2>1, <2>2, <3>1
    <3> QED
      BY <2>2, <3>1, <3>2, RejectedInOrder
  <2> QED
    BY <1>1, <1>5, <2>3, <2>4, <2>5, <2>6
<1> QED
  BY <1>4, <1>5

\* Steps 2 and 3, up to the next hook or through to the end of the checks.
LEMMA JudgedAfterSignature ==
  ASSUME JudgeInv, NEW c \in Calls, AfterSignature(c), Looked(c), "seal_invalid" \in passing'[c],
         UNCHANGED <<env, skip, retired>>
  PROVE  Asked(c)' /\ Judged(c)'
<1> DEFINE f == FirstFailure(<<"envelope_expired", "no_session">>, env[c])
           Passed(k) == k \in passing'[c]
           Failed(k) == k \in failing'[c]
<1>1. \/ f = "none" /\ Passed("envelope_expired") /\ Passed("no_session")
      \/ f = "envelope_expired" /\ Failed("envelope_expired")
      \/ f = "no_session" /\ Failed("no_session") /\ Passed("envelope_expired")
  <2>1. "envelope_expired" \in CheckNames /\ "no_session" \in CheckNames
    BY DEF CheckNames
  <2> QED
    BY <2>1, FirstOfTwo, Zenon DEF Looked
<1>2. \/ f # "none" /\ Reject(c, f)
      \/ f = "none" /\ AfterSession(c)
      \/ /\ f = "none" /\ 3 \notin skip
         /\ answer' = [answer EXCEPT ![c] = IF env[c].session \in retired THEN "retired" ELSE "active"]
         /\ pc' = [pc EXCEPT ![c] = "session"]
  BY DEF AfterSignature
<1>3. Passed("seal_invalid")
  OBVIOUS
<1> HIDE DEF f
<1>4. CASE f = "none" /\ AfterSession(c)
  BY <1>1, <1>3, <1>4, JudgedAfterSession
<1>5. CASE /\ f = "none" /\ 3 \notin skip
           /\ answer' = [answer EXCEPT ![c] = IF env[c].session \in retired THEN "retired" ELSE "active"]
           /\ pc' = [pc EXCEPT ![c] = "session"]
  <2>1. pc'[c] = "session" /\ answer'[c] = IF env[c].session \in retired THEN "retired" ELSE "active"
    BY <1>5 DEF JudgeInv
  <2>2. answer'[c] = "retired" => Failed("handshake_invalid")
    <3>1. ASSUME answer'[c] = "retired" PROVE Fails("handshake_invalid", env[c])
      BY <1>5, <2>1, <3>1 DEF Fails
    <3>2. "handshake_invalid" \in CheckNames
      BY DEF CheckNames
    <3> QED
      BY <3>1, <3>2, Zenon DEF Looked
  <2>3. {"seal_invalid", "envelope_expired", "no_session"} \subseteq passing'[c]
    BY <1>1, <1>3, <1>5
  <2>4. pc'[c] # "key" /\ pc'[c] # "rejected" /\ pc'[c] \notin {"deliver", "lookup", "done"}
    BY <2>1
  <2> QED
    BY <2>2, <2>3, <2>4 DEF Asked, Judged
<1>6. CASE f # "none" /\ Reject(c, f)
  <2>1. /\ \A j \in 1..8 : j < 2 => j = 1
        /\ \A j \in 1..8 : j < 3 => j \in {1, 2}
        /\ 2 \in 1..8 /\ 3 \in 1..8
    OBVIOUS
  <2>2. CASE f = "envelope_expired"
    <3>1. Reject(c, Checks[2]) /\ Checks[2] \in failing'[c] /\ Checks[1] \in passing'[c]
      BY <1>1, <1>3, <1>6, <2>2, ChecksAre
    <3>2. \A j \in 1..8 : j < 2 => Checks[j] \in passing'[c] \cup {"handshake_invalid"}
      BY <2>1, <3>1
    <3> QED
      BY <2>1, <3>1, <3>2, RejectedInOrder
  <2>3. CASE f = "no_session"
    <3>1. /\ Reject(c, Checks[3]) /\ Checks[3] \in failing'[c]
          /\ Checks[1] \in passing'[c] /\ Checks[2] \in passing'[c]
      BY <1>1, <1>3, <1>6, <2>3, ChecksAre
    <3>2. \A j \in 1..8 : j < 3 => Checks[j] \in passing'[c] \cup {"handshake_invalid"}
      BY <2>1, <3>1
    <3> QED
      BY <2>1, <3>1, <3>2, RejectedInOrder
  <2> QED
    BY <1>1, <1>6, <2>2, <2>3
<1> QED
  BY <1>2, <1>4, <1>5, <1>6

\* A call that a step does not move keeps what was judged of it.
LEMMA StaysJudged ==
  ASSUME JudgeInv, NEW c \in Calls, env' = env,
         pc'[c] = pc[c], answer'[c] = answer[c], verdict'[c] = verdict[c],
         failing[c] \subseteq failing'[c], passing[c] \subseteq passing'[c]
  PROVE  Asked(c)' /\ Judged(c)'
<1>1. Asked(c) /\ Judged(c)
  BY DEF JudgeInv
<1>2. Asked(c)'
  BY <1>1 DEF Asked
<1>3. pc'[c] = "rejected" =>
        \E i \in DOMAIN Checks :
          /\ Checks[i] = verdict'[c] /\ verdict'[c] \in failing'[c]
          /\ \A j \in 1..(i - 1) : Checks[j] \in passing'[c] \cup {"handshake_invalid"}
  BY <1>1, Zenon DEF Judged
<1>4. pc'[c] \in {"deliver", "lookup", "done"} =>
        Range(Checks) \subseteq passing'[c] \cup {"handshake_invalid"}
  BY <1>1 DEF Judged
<1>5. Judged(c)'
  BY <1>3, <1>4 DEF Judged
<1> QED
  BY <1>2, <1>5

\* Where a call is after it went through a stage.
LEMMA StageEnds ==
  ASSUME JudgeInv, NEW c \in Calls
  PROVE  /\ \A k : Reject(c, k) => pc'[c] = "rejected"
         /\ AfterSession(c) => pc'[c] # "idle"
         /\ AfterSignature(c) => pc'[c] # "idle"
<1>1. ASSUME NEW k, Reject(c, k) PROVE pc'[c] = "rejected"
  BY <1>1 DEF Reject, JudgeInv
<1>2. ASSUME AfterSession(c) PROVE pc'[c] # "idle"
  BY <1>1, <1>2 DEF AfterSession, JudgeInv
<1>3. ASSUME AfterSignature(c) PROVE pc'[c] # "idle"
  BY <1>1, <1>2, <1>3 DEF AfterSignature, JudgeInv
<1> QED
  BY <1>1, <1>2, <1>3

\* A step of a call leaves the other calls alone.
LEMMA OthersKept ==
  ASSUME JudgeInv, NEW c \in Calls, Process(c) \/ CallStep(c)
  PROVE  /\ DOMAIN pc' = Calls /\ DOMAIN answer' = Calls /\ DOMAIN verdict' = Calls
         /\ \A d \in Calls : d # c =>
              pc'[d] = pc[d] /\ answer'[d] = answer[d] /\ verdict'[d] = verdict[d]
<1> DEFINE Goal == /\ DOMAIN pc' = Calls /\ DOMAIN answer' = Calls /\ DOMAIN verdict' = Calls
                   /\ \A d \in Calls : d # c =>
                        pc'[d] = pc[d] /\ answer'[d] = answer[d] /\ verdict'[d] = verdict[d]
<1> USE DEF JudgeInv
<1>1. ASSUME NEW k, Reject(c, k) PROVE Goal
  BY <1>1 DEF Reject
<1>2. ASSUME AfterSession(c) PROVE Goal
  BY <1>1, <1>2 DEF AfterSession
<1>3. ASSUME AfterSignature(c) PROVE Goal
  BY <1>1, <1>2, <1>3 DEF AfterSignature
<1>4. ASSUME DeliverOne(c) \/ ListResolved(c) \/ LookupThrows(c) PROVE Goal
  BY <1>4 DEF DeliverOne, ListResolved, LookupThrows, Push
<1>5. ASSUME Process(c) PROVE Goal
  BY <1>3, <1>5 DEF Process
<1>6. ASSUME KeyResolved(c) \/ SessionResolved(c) \/ SessionLookupFails(c) PROVE Goal
  BY <1>1, <1>2, <1>3, <1>6 DEF KeyResolved, SessionResolved, SessionLookupFails
<1> QED
  BY <1>4, <1>5, <1>6 DEF CallStep

\* A step of a call: what it saw is what it is rejected or delivered for.
LEMMA CallJudged ==
  ASSUME JudgeInv, NEW c \in Calls, Process(c) \/ CallStep(c),
         UNCHANGED <<hookVars, env>>, Observe
  PROVE  Asked(c)' /\ Judged(c)'
<1>1. failing[c] \subseteq failing'[c] /\ passing[c] \subseteq passing'[c]
  BY ObserveLooks
<1>2. ~Ended(pc[c]) /\ pc'[c] # "idle" => Looked(c)
  BY ObserveLooks
<1>3. Asked(c) /\ Judged(c) /\ UNCHANGED <<env, skip, retired, domainKey>>
  BY DEF JudgeInv, hookVars
<1>4. "seal_invalid" \in CheckNames /\ "handshake_invalid" \in CheckNames
  BY DEF CheckNames
<1>5. CASE Process(c)
  <2>1. ~Ended(pc[c])
    BY <1>5 DEF Process, Ended
  <2>2. CASE 1 \in skip /\ AfterSignature(c)
    <3>1. Looked(c)
      BY <1>2, <2>1, <2>2, StageEnds
    <3>2. ~Fails("seal_invalid", env[c])
      BY <2>2 DEF Fails
    <3>3. "seal_invalid" \in passing'[c]
      BY <1>4, <3>1, <3>2, Zenon DEF Looked
    <3> QED
      BY <1>3, <2>2, <3>1, <3>3, JudgedAfterSignature
  <2>3. CASE /\ 1 \notin skip /\ answer' = [answer EXCEPT ![c] = domainKey[env[c].domain]]
             /\ pc' = [pc EXCEPT ![c] = "key"]
    <3>1. pc'[c] = "key" /\ answer'[c] = domainKey[env[c].domain]
      BY <2>3 DEF JudgeInv
    <3>2. Looked(c)
      BY <1>2, <2>1, <3>1
    <3>3. Fails("seal_invalid", env[c]) <=> answer'[c] # env[c].key
      BY <2>3, <3>1 DEF Fails
    <3>4. IF answer'[c] = env[c].key THEN "seal_invalid" \in passing'[c]
                                     ELSE "seal_invalid" \in failing'[c]
      BY <1>4, <3>2, <3>3, Zenon DEF Looked
    <3>5. pc'[c] # "session" /\ pc'[c] # "rejected" /\ pc'[c] \notin {"deliver", "lookup", "done"}
      BY <3>1
    <3> QED
      BY <1>3, <3>1, <3>4, <3>5 DEF Asked, Judged
  <2> QED
    BY <1>5, <2>2, <2>3 DEF Process
<1>6. CASE KeyResolved(c)
  <2>1. ~Ended(pc[c]) /\ pc[c] = "key"
    BY <1>6 DEF KeyResolved, Ended
  <2>2. CASE answer[c] # env[c].key /\ Reject(c, "seal_invalid")
    <3>1. Reject(c, Checks[1]) /\ Checks[1] \in failing'[c]
      BY <1>1, <1>3, <2>1, <2>2, ChecksAre DEF Asked
    <3>2. 1 \in 1..8 /\ \A j \in 1..8 : ~(j < 1)
      OBVIOUS
    <3> QED
      BY <3>1, <3>2, RejectedInOrder
  <2>3. CASE answer[c] = env[c].key /\ AfterSignature(c)
    <3>1. Looked(c)
      BY <1>2, <2>1, <2>3, StageEnds
    <3>2. "seal_invalid" \in passing'[c]
      BY <1>1, <1>3, <2>1, <2>3 DEF Asked
    <3> QED
      BY <1>3, <2>3, <3>1, <3>2, JudgedAfterSignature
  <2> QED
    BY <1>6, <2>2, <2>3 DEF KeyResolved
<1>7. CASE SessionResolved(c) \/ SessionLookupFails(c)
  <2>1. ~Ended(pc[c]) /\ pc[c] = "session"
    BY <1>7 DEF SessionResolved, SessionLookupFails, Ended
  <2>2. {"seal_invalid", "envelope_expired", "no_session"} \subseteq passing'[c]
    BY <1>1, <1>3, <2>1 DEF Asked
  <2>3. CASE answer[c] = "retired" /\ Reject(c, "handshake_invalid")
    <3>1. /\ Reject(c, Checks[4]) /\ Checks[4] \in failing'[c]
          /\ {Checks[1], Checks[2], Checks[3]} \subseteq passing'[c]
      BY <1>1, <1>3, <2>1, <2>2, <2>3, ChecksAre DEF Asked
    <3>2. 4 \in 1..8 /\ \A j \in 1..8 : j < 4 => j \in {1, 2, 3}
      OBVIOUS
    <3>3. \A j \in 1..8 : j < 4 => Checks[j] \in passing'[c] \cup {"handshake_invalid"}
      BY <3>1, <3>2
    <3> QED
      BY <3>1, <3>2, <3>3, RejectedInOrder
  <2>4. CASE AfterSession(c)
    <3>1. Looked(c)
      BY <1>2, <2>1, <2>4, StageEnds
    <3> QED
      BY <2>2, <2>4, <3>1, JudgedAfterSession
  <2> QED
    BY <1>7, <2>3, <2>4 DEF SessionResolved, SessionLookupFails
<1>8. CASE DeliverOne(c) \/ ListResolved(c)
  <2>1. pc[c] \in {"deliver", "lookup"} /\ pc'[c] \in {"deliver", "lookup", "done"}
    BY <1>8 DEF DeliverOne, ListResolved, Push, JudgeInv
  <2>2. Range(Checks) \subseteq passing'[c] \cup {"handshake_invalid"}
    BY <1>1, <1>3, <2>1 DEF Judged
  <2>3. pc'[c] # "key" /\ pc'[c] # "session" /\ pc'[c] # "rejected"
    BY <2>1
  <2> QED
    BY <2>2, <2>3 DEF Asked, Judged
<1>9. CASE LookupThrows(c)
  <2>1. pc'[c] = "threw"
    BY <1>9 DEF LookupThrows, JudgeInv
  <2> QED
    BY <2>1 DEF Asked, Judged
<1> QED
  BY <1>5, <1>6, <1>7, <1>8, <1>9 DEF CallStep

\* Whatever the hooks answer and whenever they change, calls stay judged.
LEMMA JudgeStep == JudgeInv /\ [Next]_vars => JudgeInv'
<1> SUFFICES ASSUME JudgeInv, [Next]_vars PROVE JudgeInv'
  OBVIOUS
<1>1. CASE UNCHANGED vars
  <2>1. UNCHANGED <<env, pc, answer, verdict, failing, passing>>
    BY <1>1 DEF vars, seenVars
  <2>2. \A c \in Calls : Asked(c)' /\ Judged(c)'
    BY <2>1, StaysJudged
  <2> QED
    BY <2>1, <2>2 DEF JudgeInv
<1>2. CASE Next
  <2>1. env' = env /\ Observe
    BY <1>2 DEF Next
  <2>2. ASSUME NEW c \in Calls, Process(c) \/ CallStep(c), UNCHANGED hookVars PROVE JudgeInv'
    <3>1. Asked(c)' /\ Judged(c)'
      BY <2>1, <2>2, CallJudged
    <3>2. ASSUME NEW d \in Calls, d # c PROVE Asked(d)' /\ Judged(d)'
      <4>1. pc'[d] = pc[d] /\ answer'[d] = answer[d] /\ verdict'[d] = verdict[d]
        BY <2>2, <3>2, OthersKept
      <4>2. failing[d] \subseteq failing'[d] /\ passing[d] \subseteq passing'[d]
        BY <2>1, ObserveLooks
      <4> QED
        BY <2>1, <4>1, <4>2, StaysJudged
    <3>3. DOMAIN pc' = Calls /\ DOMAIN answer' = Calls /\ DOMAIN verdict' = Calls
      BY <2>2, OthersKept
    <3>4. \A d \in Calls : Asked(d)' /\ Judged(d)'
      BY <3>1, <3>2, Zenon
    <3> QED
      BY <3>3, <3>4 DEF JudgeInv
  <2>3. CASE UNCHANGED <<pc, answer, verdict>>
    <3>1. \A c \in Calls : failing[c] \subseteq failing'[c] /\ passing[c] \subseteq passing'[c]
      BY <2>1, ObserveLooks
    <3>2. \A c \in Calls : Asked(c)' /\ Judged(c)'
      BY <2>1, <2>3, <3>1, StaysJudged
    <3> QED
      BY <2>3, <3>2 DEF JudgeInv
  <2>4. CASE OtherStep
    BY <2>3, <2>4 DEF OtherStep
  <2>5. CASE ServerStep
    BY <2>2, <2>3, <2>5 DEF ServerStep, Drain
  <2> QED
    BY <1>2, <2>4, <2>5 DEF Next
<1> QED
  BY <1>1, <1>2

\* process: an envelope is rejected for the first check that failed while it
\* was processed, and one that is delivered passed them all, whatever the hooks
\* answer and however keys, sessions, time and other calls move in between.
THEOREM JudgedInOrderHolds == Spec => []JudgedInOrder
<1>1. Init => JudgeInv
  BY DEF Init, JudgeInv, Asked, Judged
<1>2. JudgeInv => JudgedInOrder
  BY DEF JudgeInv, Judged, JudgedInOrder
<1> QED
  BY <1>1, <1>2, JudgeStep, PTL DEF Spec

-----------------------------------------------------------------------------
(* An inbox loses only what a full queue drops *)

\* A payload in an inbox is named by its call and its place among the results.
Payloads == Calls \X Nat
Entries == [item : Payloads, at : Nat]

\* One recipient: what is waiting is the end of what was stored, what was
\* fetched comes before it, in the same order, and what is missing is old.
Distinct(st) == \A i, j \in 1..Len(st) : st[i].item = st[j].item => i = j
Waiting(ib, st) ==
  /\ Len(ib) <= Len(st) /\ Len(ib) <= MaxDepth
  /\ \A i \in 1..Len(ib) : ib[i] = st[Len(st) - Len(ib) + i].item
Taken(ib, st, fe) ==
  /\ \A i \in 1..Len(fe) : \E p \in 1..(Len(st) - Len(ib)) : st[p].item = fe[i]
  /\ \A i, j \in 1..Len(fe), p, q \in 1..Len(st) :
       i < j /\ st[p].item = fe[i] /\ st[q].item = fe[j] => p < q
Recent(ib, st, fe) ==
  \A p \in 1..Len(st) :
    p > Len(st) - MaxDepth =>
      p > Len(st) - Len(ib) \/ \E i \in 1..Len(fe) : fe[i] = st[p].item

Box(ib, st, fe) ==
  /\ ib \in Seq(Payloads) /\ st \in Seq(Entries) /\ fe \in Seq(Payloads)
  /\ Distinct(st) /\ Waiting(ib, st) /\ Taken(ib, st, fe) /\ Recent(ib, st, fe)

\* Inbox.store: the new payload comes last, and a full queue drops its first.
LEMMA BoxStore ==
  ASSUME NEW ib, NEW st, NEW fe, Box(ib, st, fe),
         NEW x \in Payloads, NEW t \in Nat, \A p \in 1..Len(st) : st[p].item # x
  PROVE  Box(Append(IF Len(ib) >= MaxDepth THEN Tail(ib) ELSE ib, x),
             Append(st, [item |-> x, at |-> t]), fe)
<1> DEFINE rest == IF Len(ib) >= MaxDepth THEN Tail(ib) ELSE ib
           new == [item |-> x, at |-> t]
           ib2 == Append(rest, x)
           st2 == Append(st, new)
<1>1. ib \in Seq(Payloads) /\ st \in Seq(Entries) /\ fe \in Seq(Payloads) /\ new \in Entries
      /\ new.item = x /\ MaxDepth \in Nat \ {0}
  BY PipelineAssumption DEF Box, Entries
<1>2. Len(ib) \in Nat /\ Len(st) \in Nat /\ Len(fe) \in Nat
  BY <1>1
<1> DEFINE k == IF Len(ib) >= MaxDepth THEN 1 ELSE 0
<1>3. /\ rest \in Seq(Payloads) /\ Len(rest) = Len(ib) - k
      /\ \A i \in 1..Len(rest) : rest[i] = ib[i + k]
  <2>1. CASE Len(ib) >= MaxDepth
    <3>1. ib # <<>>
      BY <1>1, <2>1, EmptySeq
    <3> QED
      BY <1>1, <2>1, <3>1, HeadTailProperties
  <2>2. CASE ~(Len(ib) >= MaxDepth)
    <3>1. \A i \in 1..Len(ib) : i + 0 = i
      BY <1>2
    <3> QED
      BY <1>1, <1>2, <2>2, <3>1
  <2> QED
    BY <2>1, <2>2
<1>4. k \in {0, 1} /\ Len(ib) - k \in Nat /\ Len(ib) - k < MaxDepth
      /\ (k = 1 => Len(ib) = MaxDepth)
  BY <1>1, <1>2, <1>3 DEF Box, Waiting
<1> HIDE DEF rest, k, new
<1>5. /\ ib2 \in Seq(Payloads) /\ Len(ib2) = Len(ib) - k + 1
      /\ ib2[Len(ib) - k + 1] = x
      /\ \A i \in 1..(Len(ib) - k) : ib2[i] = ib[i + k]
  <2>1. /\ ib2 \in Seq(Payloads) /\ Len(ib2) = Len(rest) + 1 /\ ib2[Len(rest) + 1] = x
        /\ \A i \in 1..Len(rest) : ib2[i] = rest[i]
    BY <1>3
  <2> HIDE DEF ib2
  <2> QED
    BY <1>3, <2>1
<1>6. /\ st2 \in Seq(Entries) /\ Len(st2) = Len(st) + 1
      /\ st2[Len(st) + 1] = new
      /\ \A i \in 1..Len(st) : st2[i] = st[i]
  BY <1>1, <1>2
<1> HIDE DEF ib2, st2
<1>7. Distinct(st2)
  <2>1. \A i \in 1..Len(st2) : i \in 1..Len(st) \/ i = Len(st) + 1
    BY <1>2, <1>6
  <2>2. \A i, j \in 1..Len(st) : st[i].item = st[j].item => i = j
    BY DEF Box, Distinct
  <2> QED
    BY <1>1, <1>6, <2>1, <2>2, Zenon DEF Distinct
<1>8. Waiting(ib2, st2)
  <2>1. Len(ib) <= Len(st) /\ \A i \in 1..Len(ib) : ib[i] = st[Len(st) - Len(ib) + i].item
    BY DEF Box, Waiting
  <2>2. ASSUME NEW i \in 1..Len(ib2) PROVE ib2[i] = st2[Len(st2) - Len(ib2) + i].item
    <3>1. CASE i = Len(ib) - k + 1
      <4>1. Len(st2) - Len(ib2) + i = Len(st) + 1
        BY <1>2, <1>4, <1>5, <1>6, <3>1
      <4> QED
        BY <1>1, <1>5, <1>6, <3>1, <4>1
    <3>2. CASE i \in 1..(Len(ib) - k)
      <4>1. /\ i + k \in 1..Len(ib) /\ Len(st2) - Len(ib2) + i = Len(st) - Len(ib) + (i + k)
            /\ Len(st) - Len(ib) + (i + k) \in 1..Len(st)
        <5>2. i \in Nat /\ Len(ib) <= Len(st)
          BY <2>1, <3>2
        <5>3. /\ i + k \in 1..Len(ib)
              /\ (Len(st) + 1) - (Len(ib) - k + 1) + i = Len(st) - Len(ib) + (i + k)
              /\ Len(st) - Len(ib) + (i + k) \in 1..Len(st)
          BY <1>2, <1>4, <3>2, <5>2
        <5>4. Len(st2) = Len(st) + 1 /\ Len(ib2) = Len(ib) - k + 1
          BY <1>5, <1>6
        <5> QED
          BY <5>3, <5>4, Zenon
      <4>2. ib2[i] = ib[i + k]
        BY <1>5, <3>2
      <4>3. ib[i + k] = st[Len(st) - Len(ib) + (i + k)].item
        BY <2>1, <4>1
      <4>4. st2[Len(st) - Len(ib) + (i + k)] = st[Len(st) - Len(ib) + (i + k)]
        BY <1>6, <4>1
      <4> QED
        BY <4>1, <4>2, <4>3, <4>4, Zenon
    <3> QED
      BY <1>2, <1>4, <1>5, <3>1, <3>2
  <2>3. Len(ib2) <= Len(st2) /\ Len(ib2) <= MaxDepth
    <3>1. \A a, b, m \in Int, d \in {0, 1} :
            a <= b /\ a - d < m => a - d + 1 <= b + 1 /\ a - d + 1 <= m
      OBVIOUS
    <3> QED
      BY <1>1, <1>2, <1>4, <1>5, <1>6, <2>1, <3>1
  <2> QED
    BY <2>2, <2>3 DEF Waiting
<1>9. Taken(ib2, st2, fe)
  <2>1. \A i \in 1..Len(fe) : \E p \in 1..(Len(st) - Len(ib)) : st[p].item = fe[i]
    BY DEF Box, Taken
  <2>2. Len(st) - Len(ib) <= Len(st2) - Len(ib2) /\ Len(st) - Len(ib) <= Len(st)
    BY <1>2, <1>4, <1>5, <1>6
  <2>3. \A p \in 1..(Len(st) - Len(ib)) : p \in 1..(Len(st2) - Len(ib2)) /\ st2[p] = st[p]
    BY <1>2, <1>5, <1>6, <1>4, <2>2
  <2>4. \A i \in 1..Len(fe) : \E p \in 1..(Len(st2) - Len(ib2)) : st2[p].item = fe[i]
    BY <2>1, <2>3
  <2>5. ASSUME NEW i \in 1..Len(fe), NEW p \in 1..Len(st2), st2[p].item = fe[i]
        PROVE  p \in 1..Len(st) /\ st[p].item = fe[i]
    <3>1. p # Len(st) + 1
      <4>1. PICK o \in 1..(Len(st) - Len(ib)) : st[o].item = fe[i]
        BY <2>1
      <4>2. o \in 1..Len(st)
        BY <1>2, <2>2
      <4> QED
        BY <1>1, <1>6, <2>5, <4>1, <4>2
    <3>2. p \in 1..Len(st)
      BY <1>2, <1>6, <3>1
    <3> QED
      BY <1>6, <2>5, <3>2
  <2> QED
    BY <2>4, <2>5 DEF Box, Taken
<1>10. Recent(ib2, st2, fe)
  <2> SUFFICES ASSUME NEW p \in 1..Len(st2), p > Len(st2) - MaxDepth, ~(p > Len(st2) - Len(ib2))
               PROVE  \E i \in 1..Len(fe) : fe[i] = st2[p].item
    BY DEF Recent
  <2>1. k = 0
    BY <1>1, <1>2, <1>4, <1>5, <1>6
  <2>2. p \in 1..Len(st) /\ p > Len(st) - MaxDepth /\ ~(p > Len(st) - Len(ib))
    BY <1>1, <1>2, <1>4, <1>5, <1>6, <2>1
  <2> QED
    BY <1>6, <2>2 DEF Box, Recent
<1> QED
  BY <1>1, <1>5, <1>6, <1>7, <1>8, <1>9, <1>10 DEF Box, ib2, st2, rest, new

\* Inbox.drain: what was waiting follows what was fetched before.
LEMMA BoxDrain ==
  ASSUME NEW ib, NEW st, NEW fe, Box(ib, st, fe)
  PROVE  Box(<<>>, st, fe \o ib)
<1> DEFINE all == fe \o ib
<1>1. ib \in Seq(Payloads) /\ st \in Seq(Entries) /\ fe \in Seq(Payloads)
  BY DEF Box
<1>2. Len(ib) \in Nat /\ Len(st) \in Nat /\ Len(fe) \in Nat /\ MaxDepth \in Nat \ {0}
  BY <1>1, PipelineAssumption
<1>3. /\ all \in Seq(Payloads) /\ Len(all) = Len(fe) + Len(ib)
      /\ \A i \in 1..(Len(fe) + Len(ib)) : all[i] = IF i <= Len(fe) THEN fe[i] ELSE ib[i - Len(fe)]
  BY <1>1, ConcatProperties
<1>4. <<>> \in Seq(Payloads) /\ Len(<<>>) = 0
  BY EmptySeq
<1> HIDE DEF all
<1>5. Waiting(<<>>, st)
  BY <1>2, <1>4 DEF Waiting
<1>6. Len(ib) <= Len(st) /\ \A i \in 1..Len(ib) : ib[i] = st[Len(st) - Len(ib) + i].item
  BY DEF Box, Waiting
<1>7. \A i, j \in 1..Len(st) : st[i].item = st[j].item => i = j
  BY DEF Box, Distinct
\* Where the i-th of all payloads was stored.
<1>8. ASSUME NEW i \in 1..Len(all), NEW p \in 1..Len(st), st[p].item = all[i]
      PROVE  /\ i <= Len(fe) => p <= Len(st) - Len(ib) /\ st[p].item = fe[i]
             /\ ~(i <= Len(fe)) => p = Len(st) - Len(ib) + (i - Len(fe))
  <2>1. CASE i <= Len(fe)
    <3>1. i \in 1..Len(fe) /\ all[i] = fe[i]
      BY <1>2, <1>3, <2>1
    <3>2. PICK o \in 1..(Len(st) - Len(ib)) : st[o].item = fe[i]
      BY <3>1 DEF Box, Taken
    <3>3. o \in 1..Len(st)
      BY <1>2, <1>6
    <3>4. o = p
      BY <1>7, <1>8, <3>1, <3>2, <3>3
    <3>5. p <= Len(st) - Len(ib)
      <4>1. o <= Len(st) - Len(ib)
        BY <1>2
      <4> QED
        BY <3>4, <4>1
    <3>6. st[p].item = fe[i]
      BY <3>2, <3>4
    <3> QED
      BY <2>1, <3>5, <3>6, Zenon
  <2>2. CASE ~(i <= Len(fe))
    <3> DEFINE o == Len(st) - Len(ib) + (i - Len(fe))
    <3>1. i - Len(fe) \in 1..Len(ib) /\ all[i] = ib[i - Len(fe)] /\ o \in 1..Len(st)
      <4>1. i \in 1..(Len(fe) + Len(ib)) /\ all[i] = ib[i - Len(fe)]
        BY <1>3, <2>2
      <4>2. Len(ib) <= Len(st) /\ i - Len(fe) \in 1..Len(ib)
        BY <1>2, <1>6, <2>2, <4>1
      <4> QED
        BY <1>2, <4>1, <4>2
    <3>2. st[o].item = all[i]
      BY <1>6, <3>1
    <3> HIDE DEF o
    <3>3. o = p
      BY <1>7, <1>8, <3>1, <3>2
    <3> QED
      BY <2>2, <3>3 DEF o
  <2> QED
    BY <2>1, <2>2
<1>9. Taken(<<>>, st, all)
  <2>1. ASSUME NEW i \in 1..Len(all) PROVE \E p \in 1..(Len(st) - Len(<<>>)) : st[p].item = all[i]
    <3>1. CASE i <= Len(fe)
      <4>1. i \in 1..Len(fe) /\ all[i] = fe[i]
        BY <1>2, <1>3, <3>1
      <4>2. PICK o \in 1..(Len(st) - Len(ib)) : st[o].item = fe[i]
        BY <4>1 DEF Box, Taken
      <4>3. o \in 1..(Len(st) - Len(<<>>))
        BY <1>2, <1>4, <1>6
      <4> QED
        BY <4>1, <4>2, <4>3
    <3>2. CASE ~(i <= Len(fe))
      <4> DEFINE o == Len(st) - Len(ib) + (i - Len(fe))
      <4>1. i - Len(fe) \in 1..Len(ib) /\ all[i] = ib[i - Len(fe)] /\ o \in 1..(Len(st) - Len(<<>>))
        BY <1>2, <1>3, <1>4, <1>6, <3>2
      <4>2. st[o].item = all[i]
        BY <1>6, <4>1
      <4> QED
        BY <4>1, <4>2
    <3> QED
      BY <3>1, <3>2
  <2>2. ASSUME NEW i \in 1..Len(all), NEW j \in 1..Len(all), NEW p \in 1..Len(st), NEW q \in 1..Len(st),
               i < j, st[p].item = all[i], st[q].item = all[j]
        PROVE  p < q
    <3>1. /\ i <= Len(fe) => p <= Len(st) - Len(ib) /\ st[p].item = fe[i]
          /\ ~(i <= Len(fe)) => p = Len(st) - Len(ib) + (i - Len(fe))
          /\ j <= Len(fe) => q <= Len(st) - Len(ib) /\ st[q].item = fe[j]
          /\ ~(j <= Len(fe)) => q = Len(st) - Len(ib) + (j - Len(fe))
      BY <1>8, <2>2
    <3>2. CASE j <= Len(fe)
      <4>1. i \in 1..Len(fe) /\ j \in 1..Len(fe) /\ st[p].item = fe[i] /\ st[q].item = fe[j]
        BY <1>2, <1>3, <2>2, <3>1, <3>2
      <4> QED
        BY <2>2, <4>1 DEF Box, Taken
    <3>3. CASE ~(j <= Len(fe))
      BY <1>2, <1>3, <2>2, <3>1, <3>3
    <3> QED
      BY <3>2, <3>3
  <2> QED
    BY <2>1, <2>2, Zenon DEF Taken
<1>10. Recent(<<>>, st, all)
  <2> SUFFICES ASSUME NEW p \in 1..Len(st), p > Len(st) - MaxDepth
               PROVE  \E i \in 1..Len(all) : all[i] = st[p].item
    BY DEF Recent
  <2>1. CASE p > Len(st) - Len(ib)
    <3> DEFINE n == p - (Len(st) - Len(ib))
    <3>1. /\ n \in 1..Len(ib) /\ Len(st) - Len(ib) + n = p
          /\ n + Len(fe) \in 1..Len(all) /\ ~(n + Len(fe) <= Len(fe)) /\ (n + Len(fe)) - Len(fe) = n
      BY <1>2, <1>3, <1>6, <2>1
    <3> HIDE DEF n
    <3>2. all[n + Len(fe)] = ib[n] /\ ib[n] = st[p].item
      BY <1>3, <1>6, <3>1
    <3> QED
      BY <3>1, <3>2
  <2>2. CASE ~(p > Len(st) - Len(ib))
    <3>1. PICK i \in 1..Len(fe) : fe[i] = st[p].item
      BY <2>2 DEF Box, Recent
    <3>2. i \in 1..Len(all) /\ all[i] = fe[i]
      BY <1>2, <1>3
    <3> QED
      BY <3>1, <3>2
  <2> QED
    BY <2>1, <2>2
<1>11. Distinct(st)
  BY DEF Box
<1> QED
  BY <1>1, <1>3, <1>4, <1>5, <1>9, <1>10, <1>11 DEF Box, all

MailInv ==
  /\ now \in Nat
  /\ DOMAIN results = Calls /\ \A c \in Calls : \E S : results[c] \in Seq(S)
  /\ DOMAIN inbox = LocalRecipients /\ DOMAIN stored = LocalRecipients
  /\ DOMAIN fetched = LocalRecipients
  /\ \A r \in LocalRecipients : Box(inbox[r], stored[r], fetched[r])
  /\ \A r \in LocalRecipients : \A p \in 1..Len(stored[r]) :
       stored[r][p].item[2] <= Len(results[stored[r][p].item[1]])

\* A stored payload is named by a call and a number.
LEMMA ItemNames ==
  ASSUME NEW st \in Seq(Entries), NEW p \in 1..Len(st)
  PROVE  st[p].item \in Payloads /\ st[p].item[1] \in Calls /\ st[p].item[2] \in Nat
<1>1. st[p] \in Entries
  BY ElementOfSeq
<1>2. st[p].item \in Payloads
  BY <1>1 DEF Entries
<1> QED
  BY <1>2 DEF Payloads

\* What a box keeps is what MailKept asks of it.
LEMMA BoxKept ==
  ASSUME NEW ib, NEW st, NEW fe, Box(ib, st, fe)
  PROVE  LET kept == fe \o ib
             place(x) == CHOOSE i \in DOMAIN st : st[i].item = x
         IN /\ \A i, j \in DOMAIN kept : i < j => place(kept[i]) < place(kept[j])
            /\ \A i \in DOMAIN st : i > Len(st) - MaxDepth => st[i].item \in Range(kept)
<1> DEFINE all == fe \o ib
           place(x) == CHOOSE i \in DOMAIN st : st[i].item = x
<1>1. Box(<<>>, st, all)
  BY BoxDrain
<1>2. ib \in Seq(Payloads) /\ fe \in Seq(Payloads) /\ st \in Seq(Entries) /\ MaxDepth \in Nat
  BY PipelineAssumption DEF Box
<1>3. /\ all \in Seq(Payloads) /\ DOMAIN all = 1..Len(all) /\ DOMAIN st = 1..Len(st)
      /\ Len(st) \in Nat
  BY <1>2, ConcatProperties, LenProperties
<1> HIDE DEF all
<1>4. Len(<<>>) = 0 /\ Len(st) - 0 = Len(st)
  BY <1>3
<1>5. /\ \A i \in 1..Len(all) : \E p \in 1..Len(st) : st[p].item = all[i]
      /\ \A i, j \in 1..Len(all), p, q \in 1..Len(st) :
           i < j /\ st[p].item = all[i] /\ st[q].item = all[j] => p < q
      /\ \A p \in 1..Len(st) : p > Len(st) - MaxDepth =>
           p > Len(st) \/ \E i \in 1..Len(all) : all[i] = st[p].item
  <2>1. Taken(<<>>, st, all) /\ Recent(<<>>, st, all)
    BY <1>1, Zenon DEF Box
  <2>2. /\ \A i \in 1..Len(all) : \E p \in 1..Len(st) : st[p].item = all[i]
        /\ \A i, j \in 1..Len(all), p, q \in 1..Len(st) :
             i < j /\ st[p].item = all[i] /\ st[q].item = all[j] => p < q
    BY <1>4, <2>1, Zenon DEF Taken
  <2>3. \A p \in 1..Len(st) : p > Len(st) - MaxDepth =>
          p > Len(st) \/ \E i \in 1..Len(all) : all[i] = st[p].item
    BY <1>4, <2>1, Zenon DEF Recent
  <2> QED
    BY <2>2, <2>3
<1>6. ASSUME NEW i \in DOMAIN all
      PROVE  place(all[i]) \in 1..Len(st) /\ st[place(all[i])].item = all[i]
  BY <1>3, <1>5
<1>7. ASSUME NEW i \in DOMAIN all, NEW j \in DOMAIN all, i < j
      PROVE  place(all[i]) < place(all[j])
  <2>1. /\ place(all[i]) \in 1..Len(st) /\ st[place(all[i])].item = all[i]
        /\ place(all[j]) \in 1..Len(st) /\ st[place(all[j])].item = all[j]
    BY <1>6
  <2> HIDE DEF place
  <2> QED
    BY <1>3, <1>5, <1>7, <2>1
<1>8. ASSUME NEW i \in DOMAIN st, i > Len(st) - MaxDepth
      PROVE  st[i].item \in Range(all)
  <2>1. i \in 1..Len(st) /\ ~(i > Len(st))
    BY <1>3
  <2>2. PICK n \in 1..Len(all) : all[n] = st[i].item
    BY <1>5, <1>8, <2>1
  <2> QED
    BY <1>3, <2>2 DEF Range
<1> QED
  BY <1>7, <1>8 DEF all

\* A result is pushed after the others.
LEMMA PushGrows ==
  ASSUME MailInv, NEW c \in Calls, NEW s, Push(c, s)
  PROVE  /\ DOMAIN results' = Calls /\ \A d \in Calls : \E S : results'[d] \in Seq(S)
         /\ Len(results[c]) \in Nat /\ Len(results'[c]) = Len(results[c]) + 1
         /\ \A d \in Calls : Len(results[d]) \in Nat /\ Len(results[d]) <= Len(results'[d])
<1>1. /\ results' = [results EXCEPT ![c] = Append(results[c], s)] /\ DOMAIN results = Calls
      /\ \A d \in Calls : \E S : results[d] \in Seq(S)
  BY DEF Push, MailInv
<1>2. \A d \in Calls : Len(results[d]) \in Nat
  BY <1>1, LenProperties
<1>3. PICK S : results[c] \in Seq(S)
  BY <1>1
<1>4. results[c] \in Seq(S \cup {s})
  BY <1>3, SeqMonotonic
<1>5. /\ Append(results[c], s) \in Seq(S \cup {s})
      /\ Len(Append(results[c], s)) = Len(results[c]) + 1
  <2> DEFINE q == results[c]
             T == S \cup {s}
  <2>1. q \in Seq(T) /\ s \in T
    BY <1>4
  <2> HIDE DEF q, T
  <2>2. Append(q, s) \in Seq(T) /\ Len(Append(q, s)) = Len(q) + 1
    BY <2>1
  <2> QED
    BY <2>2 DEF q, T
<1>6. results'[c] = Append(results[c], s) /\ \A d \in Calls : d # c => results'[d] = results[d]
  BY <1>1
<1>7. ASSUME NEW d \in Calls PROVE \E R : results'[d] \in Seq(R)
  BY <1>1, <1>5, <1>6
<1>8. ASSUME NEW d \in Calls PROVE Len(results[d]) <= Len(results'[d])
  <2>1. CASE d = c
    BY <1>2, <1>5, <1>6, <2>1
  <2>2. CASE d # c
    BY <1>2, <1>6, <2>2
  <2> QED
    BY <2>1, <2>2
<1>9. Len(results'[c]) = Len(results[c]) + 1
  BY <1>5, <1>6
<1>10. DOMAIN results' = Calls
  BY <1>1
<1> QED
  BY <1>2, <1>7, <1>8, <1>9, <1>10

\* A payload is stored under the place of the result that is pushed with it,
\* which no payload has yet.
LEMMA StoreKept ==
  ASSUME MailInv, NEW c \in Calls, Push(c, "delivered"), NEW r,
         Store(r, <<c, Len(results[c]) + 1>>), UNCHANGED now
  PROVE  MailInv'
<1> DEFINE x == <<c, Len(results[c]) + 1>>
<1>1. /\ DOMAIN results' = Calls /\ \A d \in Calls : \E S : results'[d] \in Seq(S)
      /\ Len(results[c]) \in Nat /\ Len(results'[c]) = Len(results[c]) + 1
      /\ \A d \in Calls : Len(results[d]) \in Nat /\ Len(results[d]) <= Len(results'[d])
  BY PushGrows
<1>2. x \in Payloads /\ x[1] = c /\ x[2] = Len(results[c]) + 1
  BY <1>1 DEF Payloads
<1>3. /\ inbox' = [inbox EXCEPT ![r] =
            Append(IF Len(inbox[r]) >= MaxDepth THEN Tail(inbox[r]) ELSE inbox[r], x)]
      /\ stored' = [stored EXCEPT ![r] = Append(stored[r], [item |-> x, at |-> now])]
      /\ fetched' = fetched
  BY DEF Store
<1> HIDE DEF x
<1>4. /\ DOMAIN inbox = LocalRecipients /\ DOMAIN stored = LocalRecipients
      /\ DOMAIN fetched = LocalRecipients /\ now \in Nat
      /\ \A b \in LocalRecipients : Box(inbox[b], stored[b], fetched[b])
      /\ \A b \in LocalRecipients : \A p \in 1..Len(stored[b]) :
           stored[b][p].item[2] <= Len(results[stored[b][p].item[1]])
  BY DEF MailInv
<1>5. \A b \in LocalRecipients : \A p \in 1..Len(stored[b]) :
        /\ stored[b][p].item \in Payloads
        /\ stored[b][p].item[1] \in Calls /\ stored[b][p].item[2] \in Nat
  BY <1>4, ItemNames DEF Box
<1>6. /\ DOMAIN inbox' = LocalRecipients /\ DOMAIN stored' = LocalRecipients
      /\ DOMAIN fetched' = LocalRecipients
  BY <1>3, <1>4
<1>7. ASSUME NEW b \in LocalRecipients
      PROVE  /\ Box(inbox'[b], stored'[b], fetched'[b])
             /\ \A p \in 1..Len(stored'[b]) :
                  stored'[b][p].item[2] <= Len(results'[stored'[b][p].item[1]])
  <2>1. ASSUME NEW p \in 1..Len(stored[b])
        PROVE  /\ stored[b][p].item[1] \in Calls /\ stored[b][p].item[2] \in Nat
               /\ stored[b][p].item[2] <= Len(results'[stored[b][p].item[1]])
               /\ stored[b][p].item # x
    <3>2. stored[b][p].item[1] \in Calls /\ stored[b][p].item[2] \in Nat
      BY <1>5
    <3>3. stored[b][p].item[2] <= Len(results[stored[b][p].item[1]])
      BY <1>4
    <3>4. /\ Len(results[stored[b][p].item[1]]) \in Nat
          /\ Len(results[stored[b][p].item[1]]) <= Len(results'[stored[b][p].item[1]])
      BY <1>1, <3>2
    <3>5. stored[b][p].item # x
      <4>1. ASSUME stored[b][p].item = x PROVE FALSE
        <5>1. Len(results[c]) + 1 <= Len(results[c])
          BY <1>2, <3>3, <4>1
        <5> QED
          BY <1>1, <5>1
      <4> QED
        BY <4>1
    <3>6. Len(results'[stored[b][p].item[1]]) \in Nat
      BY <1>1, <3>2, LenProperties
    <3>7. stored[b][p].item[2] <= Len(results'[stored[b][p].item[1]])
      <4>1. \A k, m, n \in Nat : k <= m /\ m <= n => k <= n
        OBVIOUS
      <4> QED
        BY <3>2, <3>3, <3>4, <3>6, <4>1, Zenon
    <3> QED
      BY <3>2, <3>5, <3>7
  <2>2. CASE b # r
    <3>1. inbox'[b] = inbox[b] /\ stored'[b] = stored[b] /\ fetched'[b] = fetched[b]
      BY <1>3, <1>4, <2>2
    <3> QED
      BY <1>4, <2>1, <3>1
  <2>3. CASE b = r
    <3> DEFINE entry == [item |-> x, at |-> now]
    <3>1. /\ inbox'[b] = Append(IF Len(inbox[b]) >= MaxDepth THEN Tail(inbox[b]) ELSE inbox[b], x)
          /\ stored'[b] = Append(stored[b], [item |-> x, at |-> now]) /\ fetched'[b] = fetched[b]
      BY <1>3, <1>4, <2>3
    <3>2. \A p \in 1..Len(stored[b]) : stored[b][p].item # x
      BY <2>1
    <3>3. Box(inbox[b], stored[b], fetched[b])
      BY <1>4
    <3>4. Box(inbox'[b], stored'[b], fetched'[b])
      BY <1>2, <1>4, <3>1, <3>2, <3>3, BoxStore
    <3>5. entry \in Entries /\ entry.item = x /\ stored[b] \in Seq(Entries)
      BY <1>2, <1>4, <3>3 DEF Entries, Box
    <3> HIDE DEF entry
    <3>6. /\ Len(stored'[b]) = Len(stored[b]) + 1 /\ Len(stored[b]) \in Nat
          /\ stored'[b][Len(stored[b]) + 1] = entry
          /\ \A p \in 1..Len(stored[b]) : stored'[b][p] = stored[b][p]
      <4>1. stored'[b] = Append(stored[b], entry)
        BY <3>1 DEF entry
      <4> QED
        BY <3>5, <4>1
    <3>7. ASSUME NEW p \in 1..Len(stored'[b])
          PROVE  stored'[b][p].item[2] <= Len(results'[stored'[b][p].item[1]])
      <4>1. CASE p = Len(stored[b]) + 1
        <5>1. stored'[b][p].item = x
          BY <3>5, <3>6, <4>1
        <5> QED
          BY <1>1, <1>2, <5>1
      <4>2. CASE p # Len(stored[b]) + 1
        <5>1. p \in 1..Len(stored[b])
          BY <3>6, <4>2
        <5> QED
          BY <2>1, <3>6, <5>1
      <4> QED
        BY <4>1, <4>2
    <3> QED
      BY <3>4, <3>7
  <2> QED
    BY <2>2, <2>3
<1> QED
  BY <1>1, <1>4, <1>6, <1>7 DEF MailInv

\* A step that stores nothing, whatever it adds to the results.
LEMMA ResultsOnly ==
  ASSUME MailInv, UNCHANGED mailVars, now' \in Nat, DOMAIN results' = Calls,
         \A c \in Calls : \E S : results'[c] \in Seq(S),
         \A c \in Calls : Len(results[c]) \in Nat /\ Len(results[c]) <= Len(results'[c])
  PROVE  MailInv'
<1>1. UNCHANGED <<inbox, stored, fetched>>
  BY DEF mailVars
<1>2. ASSUME NEW r \in LocalRecipients, NEW p \in 1..Len(stored[r])
      PROVE  stored[r][p].item[2] <= Len(results'[stored[r][p].item[1]])
  <2>1. Box(inbox[r], stored[r], fetched[r])
    BY DEF MailInv
  <2>3. stored[r][p].item[1] \in Calls /\ stored[r][p].item[2] \in Nat
    BY <2>1, ItemNames DEF Box
  <2>4. stored[r][p].item[2] <= Len(results[stored[r][p].item[1]])
    BY DEF MailInv
  <2>5. /\ Len(results[stored[r][p].item[1]]) \in Nat
        /\ Len(results[stored[r][p].item[1]]) <= Len(results'[stored[r][p].item[1]])
        /\ Len(results'[stored[r][p].item[1]]) \in Nat
    BY <2>3, LenProperties
  <2>6. \A k, m, n \in Nat : k <= m /\ m <= n => k <= n
    OBVIOUS
  <2> QED
    BY <2>3, <2>4, <2>5, <2>6, Zenon
<1> QED
  BY <1>1, <1>2 DEF MailInv

\* Deliveries, fetches and everything around them keep MailInv.
LEMMA MailStep == MailInv /\ [Next]_vars => MailInv'
<1> SUFFICES ASSUME MailInv, [Next]_vars PROVE MailInv'
  OBVIOUS
<1>1. /\ now \in Nat /\ DOMAIN results = Calls /\ \A c \in Calls : \E S : results[c] \in Seq(S)
      /\ \A c \in Calls : Len(results[c]) \in Nat /\ Len(results[c]) <= Len(results[c])
  <2>1. \A c \in Calls : Len(results[c]) \in Nat
    BY LenProperties DEF MailInv
  <2>2. \A n \in Nat : n <= n
    OBVIOUS
  <2> QED
    BY <2>1, <2>2 DEF MailInv
<1>2. ASSUME UNCHANGED <<results, mailVars>>, now' \in Nat PROVE MailInv'
  BY <1>1, <1>2, ResultsOnly
<1>3. ASSUME NEW c \in Calls, NEW s, Push(c, s), UNCHANGED mailVars, UNCHANGED now PROVE MailInv'
  BY <1>1, <1>3, PushGrows, ResultsOnly
<1>4. CASE UNCHANGED vars
  BY <1>1, <1>2, <1>4 DEF vars, hookVars
<1>5. CASE OtherStep
  <2>1. now' \in Nat
    BY <1>1, <1>5 DEF OtherStep, Clock, HookChange, hookVars
  <2>2. UNCHANGED <<results, mailVars>>
    BY <1>5 DEF OtherStep
  <2> QED
    BY <1>2, <2>1, <2>2
<1>6. ASSUME NEW c \in Calls, Process(c) \/ CallStep(c), UNCHANGED hookVars PROVE MailInv'
  <2>1. now' = now
    BY <1>6 DEF hookVars
  <2>2. CASE Process(c) \/ KeyResolved(c) \/ SessionResolved(c) \/ SessionLookupFails(c) \/ LookupThrows(c)
    BY <1>1, <1>2, <2>1, <2>2 DEF Process, KeyResolved, SessionResolved, SessionLookupFails, LookupThrows
  <2>3. CASE DeliverOne(c)
    BY <1>1, <1>2, <1>3, <2>1, <2>3 DEF DeliverOne
  <2>4. CASE ListResolved(c)
    BY <1>3, <2>1, <2>4, StoreKept DEF ListResolved
  <2> QED
    BY <1>6, <2>2, <2>3, <2>4 DEF CallStep
<1>7. ASSUME NEW r \in LocalRecipients, Drain(r), UNCHANGED hookVars PROVE MailInv'
  <2>1. /\ fetched' = [fetched EXCEPT ![r] = fetched[r] \o inbox[r]]
        /\ inbox' = [inbox EXCEPT ![r] = <<>>] /\ UNCHANGED <<now, results, stored>>
    BY <1>7 DEF Drain, hookVars
  <2>2. ASSUME NEW b \in LocalRecipients PROVE Box(inbox'[b], stored'[b], fetched'[b])
    <3>1. Box(inbox[b], stored[b], fetched[b])
      BY DEF MailInv
    <3>2. CASE b = r
      <4>1. inbox'[b] = <<>> /\ stored'[b] = stored[b] /\ fetched'[b] = fetched[b] \o inbox[b]
        BY <2>1, <3>2 DEF MailInv
      <4>2. Box(<<>>, stored[b], fetched[b] \o inbox[b])
        BY <3>1, BoxDrain
      <4> QED
        BY <4>1, <4>2
    <3>3. CASE b # r
      <4>1. inbox'[b] = inbox[b] /\ stored'[b] = stored[b] /\ fetched'[b] = fetched[b]
        BY <2>1, <3>3 DEF MailInv
      <4> QED
        BY <3>1, <4>1
    <3> QED
      BY <3>2, <3>3
  <2>3. /\ DOMAIN inbox' = LocalRecipients /\ DOMAIN stored' = LocalRecipients
        /\ DOMAIN fetched' = LocalRecipients
    BY <2>1 DEF MailInv
  <2> QED
    BY <2>1, <2>2, <2>3 DEF MailInv
<1> QED
  BY <1>4, <1>5, <1>6, <1>7 DEF Next, ServerStep

\* Nothing is stored at the start.
LEMMA MailInit == Init => MailInv
<1> SUFFICES ASSUME Init PROVE MailInv
  OBVIOUS
<1>1. <<>> \in Seq(Payloads) /\ <<>> \in Seq(Entries) /\ Len(<<>>) = 0 /\ 1..0 = {}
  BY EmptySeq
<1>2. MaxDepth \in Nat
  BY PipelineAssumption
<1>3. Box(<<>>, <<>>, <<>>)
  BY <1>1, <1>2 DEF Box, Distinct, Waiting, Taken, Recent
<1>4. \A c \in Calls : results[c] \in Seq(Calls)
  BY EmptySeq DEF Init
<1> QED
  BY <1>1, <1>3, <1>4 DEF Init, MailInv

\* Inbox.store and drain under the pipeline: what the client fetches it fetches
\* once and in the order it was stored, and a payload is lost only when
\* MaxDepth newer ones were stored.
THEOREM MailKeptHolds == Spec => []MailKept
<1>1. Init => MailInv
  BY MailInit
<1>2. MailInv => MailKept
  <2> SUFFICES ASSUME MailInv, NEW r \in LocalRecipients
               PROVE  LET kept == fetched[r] \o inbox[r]
                          place(x) == CHOOSE i \in DOMAIN stored[r] : stored[r][i].item = x
                      IN /\ \A i, j \in DOMAIN kept : i < j => place(kept[i]) < place(kept[j])
                         /\ \A i \in DOMAIN stored[r] :
                              i > Len(stored[r]) - MaxDepth => stored[r][i].item \in Range(kept)
    BY DEF MailKept
  <2>1. Box(inbox[r], stored[r], fetched[r])
    BY DEF MailInv
  <2> QED
    BY <2>1, BoxKept
<1> QED
  BY <1>1, <1>2, MailStep, PTL DEF Spec

-----------------------------------------------------------------------------
(* The block list *)

\* What a lookup answers: entries in an order.
IsBlockList(list) ==
  \E n \in Nat : DOMAIN list = 1..n /\ \A i \in 1..n : list[i] # NoMatch

\* The entry at b is what the loop should have after the entries at S.
BestAt(list, sender, time, S, b) ==
  /\ b \in S /\ Applies(list[b], sender, time)
  /\ \A j \in S : Applies(list[j], sender, time) =>
       Rank(list[j]) < Rank(list[b]) \/ (Rank(list[j]) = Rank(list[b]) /\ b <= j)

\* What it has after them.
BestOf(list, sender, time, S) ==
  IF \A i \in S : ~Applies(list[i], sender, time) THEN NoMatch
  ELSE list[CHOOSE b \in S : BestAt(list, sender, time, S, b)]

\* Of a nonempty set of numbers below a bound one is the greatest.
LEMMA GreatestIndex ==
  ASSUME NEW n \in Nat, NEW S \in SUBSET (1..n), S # {}
  PROVE  Max(S) \in S /\ \A y \in S : y <= Max(S)
<1> DEFINE T == {n - m : m \in S}
<1>1. T \in SUBSET Nat /\ T # {}
  <2>1. \A m \in 1..n : n - m \in Nat
    OBVIOUS
  <2> QED
    BY <2>1
<1>2. Min(T) \in T /\ \A y \in T : Min(T) <= y
  BY <1>1, LeastIndex
<1>3. PICK m \in S : Min(T) = n - m
  BY <1>2
<1>4. \A y \in S : y <= m
  <2> TAKE y \in S
  <2>1. Min(T) <= n - y /\ m \in 1..n /\ y \in 1..n
    BY <1>2
  <2> QED
    BY <1>3, <2>1
<1> QED
  BY <1>4, Zenon DEF Max

LEMMA RankIs == \A e, sender, time : Applies(e, sender, time) => Rank(e) \in 1..3
<1> SUFFICES ASSUME NEW e, NEW sender, NEW time, Applies(e, sender, time) PROVE Rank(e) \in 1..3
  OBVIOUS
<1>1. e.type \in EntityTypes
  BY DEF Applies
<1> QED
  BY <1>1 DEF EntityTypes, Rank

\* There is one best entry as soon as one applies.
LEMMA BestExists ==
  ASSUME NEW list, NEW n \in Nat, NEW S \in SUBSET (1..n), NEW sender, NEW time,
         NEW k \in S, Applies(list[k], sender, time)
  PROVE  \E b \in S : BestAt(list, sender, time, S, b)
<1> DEFINE Hits == {i \in S : Applies(list[i], sender, time)}
           Ranks == {Rank(list[i]) : i \in Hits}
           Top == {i \in Hits : Rank(list[i]) = Max(Ranks)}
<1>1. \A i \in Hits : Rank(list[i]) \in 1..3
  BY RankIs
<1>2. Ranks \in SUBSET (1..3) /\ Ranks # {}
  BY <1>1
<1>3. Max(Ranks) \in Ranks /\ \A y \in Ranks : y <= Max(Ranks)
  BY <1>2, GreatestIndex
<1>4. Top \in SUBSET Nat /\ Top # {}
  <2>1. PICK m \in Hits : Rank(list[m]) = Max(Ranks)
    BY <1>3
  <2>2. m \in Top /\ \A i \in Top : i \in Nat
    BY <2>1
  <2> QED
    BY <2>2
<1>5. Min(Top) \in Top /\ \A i \in Top : Min(Top) <= i
  BY <1>4, LeastIndex
<1> DEFINE b == Min(Top)
<1>6. b \in S /\ Applies(list[b], sender, time) /\ Rank(list[b]) = Max(Ranks)
  BY <1>5
<1>7. ASSUME NEW j \in S, Applies(list[j], sender, time)
      PROVE  Rank(list[j]) < Rank(list[b]) \/ (Rank(list[j]) = Rank(list[b]) /\ b <= j)
  <2>1. Rank(list[j]) <= Max(Ranks) /\ Max(Ranks) \in 1..3 /\ Rank(list[j]) \in 1..3
    BY <1>1, <1>2, <1>3, <1>7
  <2>2. Rank(list[j]) = Max(Ranks) => b <= j
    BY <1>5, <1>7
  <2> HIDE DEF Ranks, b
  <2> QED
    BY <1>6, <2>1, <2>2
<1> QED
  BY <1>6, <1>7 DEF BestAt

LEMMA BestUnique ==
  ASSUME NEW list, NEW S \in SUBSET Nat, NEW sender, NEW time,
         NEW b, BestAt(list, sender, time, S, b), NEW c, BestAt(list, sender, time, S, c)
  PROVE  b = c
<1>1. b \in S /\ c \in S /\ b \in Nat /\ c \in Nat
  BY DEF BestAt
<1>2. Rank(list[b]) \in 1..3 /\ Rank(list[c]) \in 1..3
  BY RankIs DEF BestAt
<1>3. /\ Rank(list[c]) < Rank(list[b]) \/ (Rank(list[c]) = Rank(list[b]) /\ b <= c)
      /\ Rank(list[b]) < Rank(list[c]) \/ (Rank(list[b]) = Rank(list[c]) /\ c <= b)
  BY <1>1 DEF BestAt
<1> QED
  BY <1>1, <1>2, <1>3

\* So BestOf is the entry of whatever index is best.
LEMMA BestOfIs ==
  ASSUME NEW list, NEW S \in SUBSET Nat, NEW sender, NEW time,
         NEW b, BestAt(list, sender, time, S, b)
  PROVE  BestOf(list, sender, time, S) = list[b]
<1>1. b \in S /\ Applies(list[b], sender, time)
  BY DEF BestAt
<1> DEFINE c == CHOOSE c \in S : BestAt(list, sender, time, S, c)
<1>2. BestAt(list, sender, time, S, c)
  BY <1>1, Zenon
<1>3. b = c
  <2> HIDE DEF c
  <2> QED
    BY <1>2, BestUnique
<1> QED
  BY <1>1, <1>3, Zenon DEF BestOf

\* One turn of the loop, with its early return for a user entry.
LEMMA TurnFinds ==
  ASSUME NEW list, NEW n \in Nat, NEW x \in 1..n, NEW S \in SUBSET (1..n), NEW sender, NEW time,
         \A i \in 1..n : list[i] # NoMatch,
         \A i \in S : i < x
  PROVE  Better(BestOf(list, sender, time, S), list[x], sender, time) = BestOf(list, sender, time, S \cup {x})
<1> DEFINE A(i) == Applies(list[i], sender, time)
           R(i) == Rank(list[i])
           best == BestOf(list, sender, time, S)
           T == S \cup {x}
<1>1. T \in SUBSET Nat /\ S \in SUBSET Nat /\ x \notin S /\ \A i \in T : i \in 1..n
  OBVIOUS
<1> HIDE DEF A, R, best, T
<1>5. /\ \A b : BestAt(list, sender, time, S, b) => BestOf(list, sender, time, S) = list[b]
      /\ \A b : BestAt(list, sender, time, T, b) => BestOf(list, sender, time, T) = list[b]
  <2>2. \A b : BestAt(list, sender, time, S, b) => BestOf(list, sender, time, S) = list[b]
    BY <1>1, BestOfIs
  <2>3. \A b : BestAt(list, sender, time, T, b) => BestOf(list, sender, time, T) = list[b]
    BY <1>1, BestOfIs
  <2> QED
    BY <2>2, <2>3
<1> USE DEF A, R, best, T
<1>2. \A i \in 1..n : A(i) => R(i) \in 1..3
  BY RankIs
<1>3. ASSUME \A i \in S : ~A(i) PROVE Better(best, list[x], sender, time) = BestOf(list, sender, time, T)
  <2>1. best = NoMatch
    BY <1>3, Zenon DEF BestOf
  <2>2. CASE A(x)
    <3>1. BestAt(list, sender, time, T, x)
      BY <1>3, <2>2 DEF BestAt
    <3>2. BestOf(list, sender, time, T) = list[x]
      BY <1>5, <3>1, Zenon
    <3>3. Better(best, list[x], sender, time) = list[x]
      BY <2>1, <2>2, Zenon DEF Better
    <3> QED
      BY <3>2, <3>3
  <2>3. CASE ~A(x)
    <3>1. BestOf(list, sender, time, T) = NoMatch
      BY <1>3, <2>3, Zenon DEF BestOf
    <3>2. Better(best, list[x], sender, time) = NoMatch
      BY <2>1, <2>3, Zenon DEF Better
    <3> QED
      BY <3>1, <3>2
  <2> QED
    BY <2>2, <2>3
<1>4. ASSUME NEW k \in S, A(k) PROVE Better(best, list[x], sender, time) = BestOf(list, sender, time, T)
  <2>1. PICK b \in S : BestAt(list, sender, time, S, b)
    BY <1>4, BestExists
  <2>2. best = list[b]
    BY <1>5, <2>1, Zenon
  <2>3. b \in 1..n /\ A(b) /\ best # NoMatch /\ Rank(best) = R(b) /\ b < x
    BY <2>1, <2>2 DEF BestAt
  <2> HIDE DEF best
  <2>4. CASE A(x) /\ R(x) > R(b)
    <3>1. Better(best, list[x], sender, time) = list[x]
      <4>1. R(b) # 3
        BY <1>2, <2>4
      <4> QED
        BY <2>3, <2>4, <4>1, Zenon DEF Better
    <3>2. BestAt(list, sender, time, T, x)
      <4>1. ASSUME NEW j \in S, A(j) PROVE R(j) < R(x)
        <5>1. R(j) < R(b) \/ R(j) = R(b)
          BY <2>1, <4>1 DEF BestAt
        <5>2. R(j) \in 1..3 /\ R(b) \in 1..3 /\ R(x) \in 1..3
          BY <1>2, <2>3, <2>4, <4>1
        <5> HIDE DEF R
        <5> QED
          BY <2>4, <5>1, <5>2
      <4>2. x <= x
        OBVIOUS
      <4> QED
        BY <2>4, <4>1, <4>2, Zenon DEF BestAt
    <3>3. BestOf(list, sender, time, T) = list[x]
      BY <1>5, <3>2, Zenon
    <3> QED
      BY <3>1, <3>3
  <2>5. CASE ~(A(x) /\ R(x) > R(b))
    <3>1. Better(best, list[x], sender, time) = best
      BY <2>3, <2>5, Zenon DEF Better
    <3>2. BestAt(list, sender, time, T, b)
      <4>1. ASSUME A(x) PROVE R(x) < R(b) \/ (R(x) = R(b) /\ b <= x)
        <5>1. R(b) \in 1..3 /\ R(x) \in 1..3 /\ ~(R(x) > R(b)) /\ b \in 1..n /\ x \in 1..n
          BY <1>2, <2>3, <2>5, <4>1
        <5> HIDE DEF R
        <5> QED
          BY <2>3, <5>1
      <4> QED
        BY <2>1, <2>3, <4>1, Zenon DEF BestAt
    <3>3. BestOf(list, sender, time, T) = list[b]
      BY <1>5, <3>2, Zenon
    <3> QED
      BY <2>2, <3>1, <3>3
  <2> QED
    BY <2>4, <2>5
<1> QED
  BY <1>3, <1>4

\* The loop's value after each set of entries: as the fold is defined.
Turns(list, sender, time, f) ==
  f = [S \in SUBSET DOMAIN list |->
        IF S = {} THEN NoMatch ELSE Better(f[S \ {Max(S)}], list[Max(S)], sender, time)]

LEMMA LoopIs ==
  ASSUME NEW list, NEW sender, NEW time
  PROVE  MatchBlockList(list, sender, time) = (CHOOSE f : Turns(list, sender, time, f))[DOMAIN list]
BY Zenon DEF MatchBlockList, FoldLeft, MapThenFoldSet, Turns

\* The most specific of the entries, by its two defining conditions.
LEMMA MostSpecificIs ==
  ASSUME NEW list, NEW n \in Nat, DOMAIN list = 1..n, \A i \in 1..n : list[i] # NoMatch,
         NEW sender, NEW time
  PROVE  MostSpecific(list, sender, time) = BestOf(list, sender, time, 1..n)
<1> DEFINE A(i) == Applies(list[i], sender, time)
           R(i) == Rank(list[i])
           hits == {i \in DOMAIN list : A(i)}
           strongest == {i \in hits : \A j \in hits : R(j) <= R(i)}
           c == CHOOSE i \in strongest : \A j \in strongest : i <= j
<1>1. MostSpecific(list, sender, time) = IF hits = {} THEN NoMatch ELSE list[c]
  BY DEF MostSpecific
<1>2. CASE hits = {}
  BY <1>1, <1>2, Zenon DEF BestOf
<1>3. ASSUME NEW k \in hits PROVE list[c] = BestOf(list, sender, time, 1..n)
  <2>1. PICK b \in 1..n : BestAt(list, sender, time, 1..n, b)
    BY <1>3, BestExists
  <2>2. \A i \in 1..n : A(i) => R(i) \in 1..3
    BY RankIs
  <2>3. b \in hits /\ \A j \in hits : R(j) < R(b) \/ (R(j) = R(b) /\ b <= j)
    BY <2>1 DEF BestAt
  <2>4. \A i \in hits : i \in 1..n /\ R(i) \in 1..3
    BY <2>2
  <2> HIDE DEF A, R, hits
  <2>5. b \in strongest
    <3>1. \A j \in hits : R(j) <= R(b)
      BY <2>3, <2>4
    <3> QED
      BY <2>3, <3>1
  <2>6. \A j \in strongest : b <= j
    <3> TAKE j \in strongest
    <3>1. j \in hits /\ R(b) <= R(j)
      BY <2>3
    <3>2. R(j) \in 1..3 /\ R(b) \in 1..3
      BY <2>3, <2>4, <3>1
    <3> QED
      BY <2>3, <3>1, <3>2
  <2>7. c \in strongest /\ \A j \in strongest : c <= j
    BY <2>5, <2>6, Zenon
  <2>8. c = b
    <3> HIDE DEF c
    <3>1. c <= b /\ b <= c
      BY <2>5, <2>6, <2>7
    <3>2. \A i \in strongest : i \in 1..n
      BY <2>4
    <3>3. c \in 1..n /\ b \in 1..n
      BY <2>5, <2>7, <3>2
    <3> QED
      BY <3>1, <3>3
  <2>9. BestOf(list, sender, time, 1..n) = list[b]
    <3>1. 1..n \in SUBSET Nat
      OBVIOUS
    <3> QED
      BY <2>1, <3>1, BestOfIs
  <2> HIDE DEF c
  <2> QED
    BY <2>8, <2>9
<1>4. CASE hits # {}
  <2>1. PICK k \in hits : TRUE
    BY <1>4
  <2> QED
    BY <1>1, <1>3, <1>4, Zenon
<1> QED
  BY <1>2, <1>4

\* matchBlockList (blocklist.ts): for every list, its one pass with the early
\* return finds the first of the entries of the most specific type that apply.
THEOREM MatchFindsMostSpecific ==
  ASSUME NEW list, IsBlockList(list), NEW sender, NEW time
  PROVE  MatchBlockList(list, sender, time) = MostSpecific(list, sender, time)
<1>1. PICK n \in Nat : DOMAIN list = 1..n /\ \A i \in 1..n : list[i] # NoMatch
  BY DEF IsBlockList
<1> DEFINE Best(S) == BestOf(list, sender, time, S)
           g == [S \in SUBSET (1..n) |-> Best(S)]
           f == CHOOSE f : Turns(list, sender, time, f)
<1>2. ASSUME NEW S \in SUBSET (1..n), S # {}
      PROVE  Best(S) = Better(Best(S \ {Max(S)}), list[Max(S)], sender, time)
  <2> DEFINE m == Max(S)
             P == S \ {m}
  <2>1. m \in S /\ \A y \in S : y <= m
    BY <1>2, GreatestIndex
  <2>2. m \in 1..n /\ P \in SUBSET (1..n) /\ P \cup {m} = S
    BY <2>1
  <2>3. \A i \in P : i < m
    BY <2>1, <2>2
  <2> HIDE DEF m, P
  <2>4. Better(Best(P), list[m], sender, time) = Best(P \cup {m})
    BY <1>1, <2>2, <2>3, TurnFinds
  <2> QED
    BY <2>2, <2>4 DEF m, P
<1>3. Best({}) = NoMatch
  BY Zenon DEF BestOf
<1> HIDE DEF Best
<1>4. Turns(list, sender, time, g)
  <2>1. ASSUME NEW S \in SUBSET (1..n)
        PROVE  Best(S) = IF S = {} THEN NoMatch ELSE Better(g[S \ {Max(S)}], list[Max(S)], sender, time)
    <3>1. CASE S = {}
      BY <1>3, <3>1
    <3>2. CASE S # {}
      <4>1. g[S \ {Max(S)}] = Best(S \ {Max(S)})
        OBVIOUS
      <4> HIDE DEF g
      <4> QED
        BY <1>2, <3>2, <4>1
    <3> QED
      BY <3>1, <3>2
  <2>2. g = [S \in SUBSET (1..n) |->
              IF S = {} THEN NoMatch ELSE Better(g[S \ {Max(S)}], list[Max(S)], sender, time)]
    <3> DEFINE h(S) == IF S = {} THEN NoMatch ELSE Better(g[S \ {Max(S)}], list[Max(S)], sender, time)
    <3>1. \A S \in SUBSET (1..n) : Best(S) = h(S)
      BY <2>1
    <3> HIDE DEF h
    <3>2. [S \in SUBSET (1..n) |-> Best(S)] = [S \in SUBSET (1..n) |-> h(S)]
      BY <3>1
    <3> QED
      BY <3>2, Zenon DEF h
  <2> HIDE DEF g
  <2> QED
    BY <1>1, <2>2 DEF Turns
<1>5. Turns(list, sender, time, f)
  BY <1>4, Zenon
<1> HIDE DEF f, g
<1>6. \A S \in SUBSET (1..n) :
        f[S] = IF S = {} THEN NoMatch ELSE Better(f[S \ {Max(S)}], list[Max(S)], sender, time)
  <2>1. f = [S \in SUBSET (1..n) |->
              IF S = {} THEN NoMatch ELSE Better(f[S \ {Max(S)}], list[Max(S)], sender, time)]
    BY <1>1, <1>5 DEF Turns
  <2> DEFINE h(S) == IF S = {} THEN NoMatch ELSE Better(f[S \ {Max(S)}], list[Max(S)], sender, time)
  <2>2. f = [S \in SUBSET (1..n) |-> h(S)]
    BY <2>1
  <2> HIDE DEF h
  <2>3. \A S \in SUBSET (1..n) : f[S] = h(S)
    BY <2>2, Zenon
  <2> QED
    BY <2>3 DEF h
<1>7. \A k \in 0..n : f[1..k] = Best(1..k)
  <2> DEFINE Bad == {k \in 0..n : f[1..k] # Best(1..k)}
  <2> SUFFICES ASSUME Bad # {} PROVE FALSE
    OBVIOUS
  <2>1. Bad \in SUBSET Nat
    OBVIOUS
  <2>2. Min(Bad) \in Bad /\ \A i \in Bad : Min(Bad) <= i
    BY <2>1, LeastIndex
  <2> DEFINE k == Min(Bad)
  <2>3. k \in 0..n /\ f[1..k] # Best(1..k) /\ \A i \in 0..n : i < k => f[1..i] = Best(1..i)
    <3>1. k \in 0..n /\ f[1..k] # Best(1..k)
      BY <2>2
    <3>2. ASSUME NEW i \in 0..n, i < k PROVE f[1..i] = Best(1..i)
      <4>1. i \in Bad => k <= i
        BY <2>2
      <4> HIDE DEF k
      <4>2. i \notin Bad
        BY <3>1, <3>2, <4>1
      <4> QED
        BY <4>2
    <3> QED
      BY <3>1, <3>2
  <2> HIDE DEF k, Bad
  <2>4. CASE k = 0
    <3>1. 1..k = {} /\ {} \in SUBSET (1..n)
      BY <2>4
    <3> QED
      BY <1>3, <1>6, <2>3, <3>1
  <2>5. CASE k # 0
    <3>1. 1..k \in SUBSET (1..n) /\ 1..k # {} /\ k - 1 \in 0..n /\ k - 1 < k /\ k \in 1..k
      BY <2>3, <2>5
    <3>2. Max(1..k) = k
      <4>1. 1..k \in SUBSET (1..n) /\ 1..k # {}
        BY <3>1
      <4>2. Max(1..k) \in 1..k /\ \A y \in 1..k : y <= Max(1..k)
        BY <4>1, GreatestIndex
      <4> QED
        BY <3>1, <4>2
    <3>3. (1..k) \ {k} = 1..(k - 1)
      BY <2>3
    <3>4. f[1..k] = Better(f[1..(k - 1)], list[k], sender, time)
      BY <1>6, <3>1, <3>2, <3>3
    <3>5. Best(1..k) = Better(Best(1..(k - 1)), list[k], sender, time)
      BY <1>2, <3>1, <3>2, <3>3
    <3> QED
      BY <2>3, <3>1, <3>4, <3>5
  <2> QED
    BY <2>4, <2>5
<1>8. f[1..n] = Best(1..n)
  BY <1>7
<1>9. MatchBlockList(list, sender, time) = f[1..n]
  BY <1>1, LoopIs DEF f
<1> QED
  BY <1>1, <1>8, <1>9, MostSpecificIs DEF Best

-----------------------------------------------------------------------------
(* Folds over a sequence, by sets of its indices as they are defined *)

\* The last of the first k indices, and those before it.
LEMMA LastOf ==
  ASSUME NEW k \in Nat, k # 0
  PROVE  Max(1..k) = k /\ (1..k) \ {Max(1..k)} = 1..(k - 1)
<1>1. 1..k \in SUBSET (1..k) /\ 1..k # {} /\ k \in 1..k
  OBVIOUS
<1>2. Max(1..k) \in 1..k /\ \A y \in 1..k : y <= Max(1..k)
  BY <1>1, GreatestIndex
<1>3. Max(1..k) = k
  BY <1>1, <1>2
<1>4. (1..k) \ {k} = 1..(k - 1)
  OBVIOUS
<1> QED
  BY <1>3, <1>4

\* The values of a fold: a turn takes the value so far and an index.
Folded(f, n, base, turn) ==
  \A S \in SUBSET (1..n) : f[S] = IF S = {} THEN base ELSE turn[<<f[S \ {Max(S)}], Max(S)>>]

\* The values of a fold over n indices give those over one more.
LEMMA FoldExtends ==
  ASSUME NEW A, NEW base \in A, NEW k \in Nat, NEW turn \in [A \X (1..(k + 1)) -> A],
         NEW f \in [SUBSET (1..k) -> A], Folded(f, k, base, turn)
  PROVE  \E g \in [SUBSET (1..(k + 1)) -> A] : Folded(g, k + 1, base, turn)
<1> DEFINE m == k + 1
           value(S) == IF m \in S THEN turn[<<f[S \ {m}], m>>] ELSE f[S]
           g == [S \in SUBSET (1..m) |-> value(S)]
<1>0. m \in Nat /\ m \in 1..m /\ turn \in [A \X (1..m) -> A]
  OBVIOUS
<1>1. \A S \in SUBSET (1..m) : S \ {m} \in SUBSET (1..k) /\ (m \notin S => S \in SUBSET (1..k))
  OBVIOUS
<1>m. \A S \in SUBSET (1..k) : m \notin S /\ S \in SUBSET (1..m)
  OBVIOUS
<1> HIDE DEF m
<1>2. \A S \in SUBSET (1..m) : value(S) \in A
  <2> TAKE S \in SUBSET (1..m)
  <2>1. CASE m \in S
    <3>1. f[S \ {m}] \in A
      BY <1>1
    <3>2. <<f[S \ {m}], m>> \in A \X (1..m)
      BY <1>0, <3>1
    <3>3. turn[<<f[S \ {m}], m>>] \in A
      BY <1>0, <3>2, Zenon
    <3> QED
      BY <2>1, <3>3
  <2>2. CASE m \notin S
    BY <1>1, <2>2
  <2> QED
    BY <2>1, <2>2
<1>3. g \in [SUBSET (1..m) -> A] /\ \A S \in SUBSET (1..m) : g[S] = value(S)
  <2> HIDE DEF value
  <2> QED
    BY <1>2
<1> HIDE DEF g
<1>4. ASSUME NEW S \in SUBSET (1..m)
      PROVE  g[S] = IF S = {} THEN base ELSE turn[<<g[S \ {Max(S)}], Max(S)>>]
  <2>1. CASE S = {}
    <3>1. f[{}] = base /\ m \notin {}
      BY Zenon DEF Folded
    <3>2. g[S] = f[S]
      BY <1>3, <2>1, <3>1
    <3> QED
      BY <2>1, <3>1, <3>2
  <2>2. CASE S # {}
    <3>1. Max(S) \in S /\ \A y \in S : y <= Max(S)
      BY <1>0, <2>2, GreatestIndex
    <3>2. CASE m \in S
      <4>1. Max(S) = m
        <5>1. m <= Max(S) /\ Max(S) \in 1..m
          BY <3>1, <3>2
        <5> QED
          BY <1>0, <5>1
      <4>2. S \ {m} \in SUBSET (1..m) /\ m \notin S \ {m}
        OBVIOUS
      <4>3. g[S \ {m}] = f[S \ {m}]
        BY <1>3, <4>2
      <4>4. g[S] = turn[<<f[S \ {m}], m>>]
        BY <1>3, <3>2
      <4> QED
        BY <2>2, <4>1, <4>3, <4>4
    <3>3. CASE m \notin S
      <4> DEFINE P == S \ {Max(S)}
      <4>1. S \in SUBSET (1..k) /\ P \in SUBSET (1..m) /\ m \notin P
        BY <1>1, <3>3
      <4>2. g[S] = f[S] /\ g[P] = f[P]
        BY <1>3, <3>3, <4>1
      <4>3. f[S] = turn[<<f[P], Max(S)>>]
        BY <2>2, <4>1, Zenon DEF Folded
      <4> QED
        BY <2>2, <4>2, <4>3
    <3> QED
      BY <3>2, <3>3
  <2> QED
    BY <2>1, <2>2
<1>5. Folded(g, m, base, turn)
  BY <1>4 DEF Folded
<1> QED
  BY <1>3, <1>5 DEF m

\* A fold whose turns stay within a set has values.
LEMMA FoldExists ==
  ASSUME NEW A, NEW base \in A, NEW n \in Nat, NEW turn \in [A \X (1..n) -> A]
  PROVE  \E f \in [SUBSET (1..n) -> A] : Folded(f, n, base, turn)
<1> DEFINE part(k) == [x \in A \X (1..k) |-> turn[x]]
           Some(k) == \E f \in [SUBSET (1..k) -> A] : Folded(f, k, base, turn)
           Bad == {k \in 0..n : ~Some(k)}
<1>1. Some(0)
  <2> DEFINE f == [S \in SUBSET (1..0) |-> base]
  <2>1. \A S \in SUBSET (1..0) : S = {}
    OBVIOUS
  <2>2. f \in [SUBSET (1..0) -> A]
    OBVIOUS
  <2>3. Folded(f, 0, base, turn)
    BY <2>1 DEF Folded
  <2> QED
    BY <2>2, <2>3
<1>2. ASSUME NEW k \in 0..n, k # n, Some(k) PROVE Some(k + 1)
  <2>1. k \in Nat /\ part(k + 1) \in [A \X (1..(k + 1)) -> A]
    <3>1. \A x \in A \X (1..(k + 1)) : x \in A \X (1..n)
      BY <1>2
    <3>2. \A x \in A \X (1..(k + 1)) : turn[x] \in A
      BY <3>1
    <3> QED
      BY <3>2
  <2>2. \A x \in A \X (1..(k + 1)) : part(k + 1)[x] = turn[x]
    OBVIOUS
  <2>3. PICK f \in [SUBSET (1..k) -> A] : Folded(f, k, base, turn)
    BY <1>2
  <2> DEFINE t == part(k + 1)
             m == k + 1
  <2> HIDE DEF Some, part
  <2>4. ASSUME NEW g, NEW j \in 0..m, NEW S \in SUBSET (1..j), S # {}, g[S \ {Max(S)}] \in A
        PROVE  turn[<<g[S \ {Max(S)}], Max(S)>>] = t[<<g[S \ {Max(S)}], Max(S)>>]
    <3>1. j \in Nat /\ m \in Nat /\ \A y \in 1..j : y \in 1..m
      BY <1>2
    <3>2. Max(S) \in S
      BY <2>4, <3>1, GreatestIndex
    <3>3. Max(S) \in 1..m
      BY <3>1, <3>2
    <3> QED
      BY <2>2, <2>4, <3>3
  <2>5. Folded(f, k, base, t)
    <3> SUFFICES ASSUME NEW S \in SUBSET (1..k), S # {}
                 PROVE  turn[<<f[S \ {Max(S)}], Max(S)>>] = t[<<f[S \ {Max(S)}], Max(S)>>]
      BY <2>3 DEF Folded
    <3>1. k \in 0..m
      BY <1>2
    <3>2. S \ {Max(S)} \in SUBSET (1..k)
      OBVIOUS
    <3>3. f[S \ {Max(S)}] \in A
      BY <3>2
    <3> QED
      BY <2>4, <3>1, <3>3
  <2>6. PICK g \in [SUBSET (1..m) -> A] : Folded(g, m, base, t)
    <3> HIDE DEF t
    <3>1. t \in [A \X (1..(k + 1)) -> A]
      BY <2>1 DEF t
    <3> QED
      BY <2>1, <2>5, <3>1, FoldExtends
  <2>7. Folded(g, m, base, turn)
    <3> SUFFICES ASSUME NEW S \in SUBSET (1..m), S # {}
                 PROVE  turn[<<g[S \ {Max(S)}], Max(S)>>] = t[<<g[S \ {Max(S)}], Max(S)>>]
      BY <2>6 DEF Folded
    <3>1. m \in 0..m
      BY <1>2
    <3>2. S \ {Max(S)} \in SUBSET (1..m)
      OBVIOUS
    <3>3. g[S \ {Max(S)}] \in A
      BY <3>2
    <3> QED
      BY <2>4, <3>1, <3>3
  <2> QED
    BY <2>6, <2>7 DEF Some
<1> HIDE DEF Some
<1>3. Bad = {}
  <2> SUFFICES ASSUME Bad # {} PROVE FALSE
    OBVIOUS
  <2>1. Bad \in SUBSET Nat
    OBVIOUS
  <2>2. Min(Bad) \in Bad /\ \A i \in Bad : Min(Bad) <= i
    BY <2>1, LeastIndex
  <2> DEFINE k == Min(Bad)
  <2>3. k \in 0..n /\ ~Some(k) /\ k # 0
    BY <1>1, <2>2
  <2>4. k - 1 \in 0..n /\ k - 1 # n /\ (k - 1) + 1 = k /\ ~(k <= k - 1)
    <3> HIDE DEF k
    <3> QED
      BY <2>3
  <2>5. Some(k - 1)
    BY <2>2, <2>4
  <2> QED
    BY <1>2, <2>3, <2>4, <2>5
<1>4. Some(n)
  BY <1>3
<1> QED
  BY <1>4 DEF Some

\* If every turn keeps the value in the sets of a family, so does the last.
LEMMA FoldStays ==
  ASSUME NEW A, NEW n \in Nat, NEW f, f[{}] \in A[0],
         \A k \in 1..n : f[1..(k - 1)] \in A[k - 1] => f[1..k] \in A[k]
  PROVE  f[1..n] \in A[n]
<1> DEFINE Bad == {k \in 0..n : f[1..k] \notin A[k]}
<1>1. 1..0 = {}
  OBVIOUS
<1>2. Bad = {}
  <2> SUFFICES ASSUME Bad # {} PROVE FALSE
    OBVIOUS
  <2>1. Bad \in SUBSET Nat
    OBVIOUS
  <2>2. Min(Bad) \in Bad /\ \A i \in Bad : Min(Bad) <= i
    BY <2>1, LeastIndex
  <2> DEFINE k == Min(Bad)
  <2>3. k \in 0..n /\ f[1..k] \notin A[k] /\ k # 0
    BY <1>1, <2>2
  <2>4. k - 1 \in 0..n /\ ~(k <= k - 1) /\ k \in 1..n
    <3> HIDE DEF k
    <3> QED
      BY <2>3
  <2>5. f[1..(k - 1)] \in A[k - 1]
    BY <2>2, <2>4
  <2> QED
    BY <2>3, <2>4, <2>5
<1> QED
  BY <1>2

-----------------------------------------------------------------------------
(* A bucket is what the operations of its kind made it *)

OpsOfKind(k) ==
  {op \in UNION {{m.operations[i] : i \in DOMAIN m.operations} : m \in PolicyMessages} : op.kind = k}
ItemsOf(k) == {[id |-> EntryIdFor(op), entry |-> op.entry] : op \in OpsOfKind(k)}

Place(bucket, id) == SelectInSeq(bucket, LAMBDA x : x.id = id)

Unique(bucket) == \A i, j \in DOMAIN bucket : bucket[i].id = bucket[j].id => i = j

\* SelectInSeq finds the item with an id if there is one.
LEMMA PlaceIs ==
  ASSUME NEW U, NEW bucket \in Seq(U), NEW id
  PROVE  \/ Place(bucket, id) = 0 /\ \A j \in 1..Len(bucket) : bucket[j].id # id
         \/ Place(bucket, id) \in 1..Len(bucket) /\ bucket[Place(bucket, id)].id = id
<1> DEFINE I == {i \in 1..Len(bucket) : bucket[i].id = id}
<1>1. Place(bucket, id) = IF I # {} THEN Min(I) ELSE 0
  BY Zenon DEF Place, SelectInSeq
<1>2. CASE I = {}
  <2>1. \A j \in 1..Len(bucket) : bucket[j].id # id
    BY <1>2
  <2> QED
    BY <1>1, <1>2, <2>1
<1>3. CASE I # {}
  <2>1. I \in SUBSET Nat
    BY LenProperties
  <2>2. Min(I) \in I
    BY <1>3, <2>1, LeastIndex
  <2>3. Min(I) \in 1..Len(bucket) /\ bucket[Min(I)].id = id
    BY <2>2
  <2> QED
    BY <1>1, <1>3, <2>3, Zenon
<1> QED
  BY <1>2, <1>3

\* Map.set: the id has the new entry, and no other entry changes.
LEMMA MapSetIs ==
  ASSUME NEW U, NEW bucket \in Seq(U), NEW id, NEW entry, [id |-> id, entry |-> entry] \in U
  PROVE  /\ MapSet(bucket, id, entry) \in Seq(U)
         /\ Unique(bucket) =>
              /\ Unique(MapSet(bucket, id, entry))
              /\ Range(MapSet(bucket, id, entry)) =
                   {y \in Range(bucket) : y.id # id} \cup {[id |-> id, entry |-> entry]}
<1> DEFINE item == [id |-> id, entry |-> entry]
           i == Place(bucket, id)
           new == MapSet(bucket, id, entry)
           n == Len(bucket)
<1>1. item \in U /\ item.id = id
  OBVIOUS
<1>2. n \in Nat /\ DOMAIN bucket = 1..n
  BY LenProperties
<1>3. new = IF i = 0 THEN Append(bucket, item) ELSE ReplaceAt(bucket, i, item)
  BY Zenon DEF MapSet, Place
<1>4. \/ i = 0 /\ \A j \in 1..n : bucket[j].id # id
      \/ i \in 1..n /\ bucket[i].id = id
  BY PlaceIs
<1> HIDE DEF item, i, new
<1>5. CASE i = 0 /\ \A j \in 1..n : bucket[j].id # id
  <2>1. new = Append(bucket, item)
    BY <1>3, <1>5
  <2>2. /\ new \in Seq(U) /\ Len(new) = n + 1 /\ new[n + 1] = item
        /\ \A j \in 1..n : new[j] = bucket[j]
    BY <1>1, <2>1, AppendProperties
  <2>3. DOMAIN new = 1..(n + 1)
    BY <2>2, LenProperties
  <2>4. \A j \in 1..(n + 1) : j \in 1..n \/ j = n + 1
    BY <1>2
  <2>5. ASSUME Unique(bucket) PROVE Unique(new)
    BY <1>1, <1>2, <1>5, <2>2, <2>3, <2>4, <2>5 DEF Unique
  <2>6. Range(new) = {y \in Range(bucket) : y.id # id} \cup {item}
    <3>1. \A y : y \in Range(new) <=> (\E j \in 1..n : y = bucket[j]) \/ y = item
      BY <1>2, <2>2, <2>3, <2>4 DEF Range
    <3>2. \A y : y \in Range(bucket) <=> \E j \in 1..n : y = bucket[j]
      BY <1>2 DEF Range
    <3>3. \A y \in Range(bucket) : y.id # id
      BY <1>5, <3>2
    <3> QED
      BY <3>1, <3>2, <3>3
  <2> QED
    BY <2>2, <2>5, <2>6 DEF new, item
<1>6. CASE i \in 1..n /\ bucket[i].id = id
  <2>1. new = [bucket EXCEPT ![i] = item]
    <3>1. i # 0
      BY <1>2, <1>6
    <3> QED
      BY <1>3, <3>1, Zenon DEF ReplaceAt
  <2>2. /\ new \in Seq(U) /\ DOMAIN new = 1..n
        /\ \A j \in 1..n : new[j] = IF j = i THEN item ELSE bucket[j]
    BY <1>1, <1>2, <1>6, <2>1, ExceptSeq
  <2>3. ASSUME Unique(bucket) PROVE Unique(new)
    BY <1>1, <1>2, <1>6, <2>2, <2>3 DEF Unique
  <2>4. ASSUME Unique(bucket) PROVE Range(new) = {y \in Range(bucket) : y.id # id} \cup {item}
    <3>1. \A y : y \in Range(new) <=> (\E j \in 1..n : j # i /\ y = bucket[j]) \/ y = item
      BY <1>6, <2>2 DEF Range
    <3>2. \A y : y \in Range(bucket) <=> \E j \in 1..n : y = bucket[j]
      BY <1>2 DEF Range
    <3>3. \A j \in 1..n : j # i <=> bucket[j].id # id
      BY <1>2, <1>6, <2>4 DEF Unique
    <3> QED
      BY <3>1, <3>2, <3>3
  <2> QED
    BY <2>2, <2>3, <2>4 DEF new, item
<1> QED
  BY <1>4, <1>5, <1>6

\* Map.delete: the id is gone, and no other entry changes.
LEMMA MapDeleteIs ==
  ASSUME NEW U, NEW bucket \in Seq(U), NEW id
  PROVE  /\ MapDelete(bucket, id) \in Seq(U)
         /\ Unique(bucket) =>
              /\ Unique(MapDelete(bucket, id))
              /\ Range(MapDelete(bucket, id)) = {y \in Range(bucket) : y.id # id}
<1> DEFINE i == Place(bucket, id)
           new == MapDelete(bucket, id)
           n == Len(bucket)
<1>1. n \in Nat /\ DOMAIN bucket = 1..n /\ \A j \in 1..n : bucket[j] \in U
  BY LenProperties, ElementOfSeq
<1>2. new = IF i = 0 THEN bucket ELSE RemoveAt(bucket, i)
  BY Zenon DEF MapDelete, Place
<1>3. \/ i = 0 /\ \A j \in 1..n : bucket[j].id # id
      \/ i \in 1..n /\ bucket[i].id = id
  BY PlaceIs
<1> HIDE DEF i, new
<1>4. \A y : y \in Range(bucket) <=> \E j \in 1..n : y = bucket[j]
  BY <1>1 DEF Range
<1>5. CASE i = 0 /\ \A j \in 1..n : bucket[j].id # id
  <2>1. new = bucket
    BY <1>2, <1>5
  <2>2. Range(bucket) = {y \in Range(bucket) : y.id # id}
    BY <1>4, <1>5
  <2> QED
    BY <2>1, <2>2 DEF new
<1>6. CASE i \in 1..n /\ bucket[i].id = id
  <2> DEFINE front == SubSeq(bucket, 1, i - 1)
             back == SubSeq(bucket, i + 1, n)
  <2>1. new = front \o back
    <3>1. i # 0
      BY <1>1, <1>6
    <3> QED
      BY <1>2, <3>1, Zenon DEF RemoveAt
  <2>2. front \in Seq(U) /\ Len(front) = i - 1 /\ \A j \in 1..(i - 1) : front[j] = bucket[j]
    <3>1. i \in Int /\ i - 1 \in Int /\ 1 \in Int /\ \A j \in 1..(i - 1) : bucket[j] \in U
      <4>1. i \in Int /\ n \in Nat /\ i <= n
        BY <1>1, <1>6
      <4>2. \A j \in 1..(i - 1) : j \in 1..n
        BY <4>1
      <4> QED
        BY <1>1, <4>1, <4>2
    <3>2. /\ front \in Seq(U) /\ Len(front) = IF 1 <= i - 1 THEN (i - 1) - 1 + 1 ELSE 0
          /\ \A j \in 1..((i - 1) - 1 + 1) : front[j] = bucket[1 + j - 1]
      BY <3>1, SubSeqProperties
    <3>3. (IF 1 <= i - 1 THEN (i - 1) - 1 + 1 ELSE 0) = i - 1 /\ (i - 1) - 1 + 1 = i - 1
      BY <1>1, <1>6
    <3>4. \A j \in 1..(i - 1) : 1 + j - 1 = j
      OBVIOUS
    <3> HIDE DEF front
    <3> QED
      BY <3>2, <3>3, <3>4
  <2>3. back \in Seq(U) /\ Len(back) = n - i /\ \A j \in 1..(n - i) : back[j] = bucket[i + j]
    <3>1. i \in Int /\ i + 1 \in Int /\ n \in Int /\ \A j \in (i + 1)..n : bucket[j] \in U
      BY <1>1, <1>6
    <3>2. /\ back \in Seq(U) /\ Len(back) = IF i + 1 <= n THEN n - (i + 1) + 1 ELSE 0
          /\ \A j \in 1..(n - (i + 1) + 1) : back[j] = bucket[(i + 1) + j - 1]
      BY <3>1, SubSeqProperties
    <3>3. (IF i + 1 <= n THEN n - (i + 1) + 1 ELSE 0) = n - i /\ n - (i + 1) + 1 = n - i
      <4>1. i \in Int /\ n \in Int /\ i <= n
        BY <1>1, <1>6
      <4> HIDE DEF n
      <4>2. n - (i + 1) + 1 = n - i /\ (i + 1 <= n \/ n - i = 0)
        BY <4>1
      <4> QED
        BY <4>2
    <3>4. \A j \in 1..(n - i) : (i + 1) + j - 1 = i + j
      BY <1>1, <1>6
    <3> HIDE DEF back
    <3> QED
      BY <3>2, <3>3, <3>4
  <2> HIDE DEF front, back
  <2>4. /\ new \in Seq(U) /\ DOMAIN new = 1..(n - 1)
        /\ \A j \in 1..(n - 1) : new[j] = IF j < i THEN bucket[j] ELSE bucket[j + 1]
    <3>1. /\ new \in Seq(U) /\ Len(new) = Len(front) + Len(back)
          /\ \A j \in 1..(Len(front) + Len(back)) :
               new[j] = IF j <= Len(front) THEN front[j] ELSE back[j - Len(front)]
      BY <2>1, <2>2, <2>3, ConcatProperties
    <3>2. Len(front) + Len(back) = n - 1
      BY <1>1, <1>6, <2>2, <2>3
    <3>3. ASSUME NEW j \in 1..(n - 1) PROVE new[j] = IF j < i THEN bucket[j] ELSE bucket[j + 1]
      <4>1. CASE j < i
        <5>1. j <= i - 1 /\ j \in 1..(i - 1)
          BY <1>1, <1>6, <4>1
        <5> QED
          BY <2>2, <3>1, <3>2, <4>1, <5>1
      <4>2. CASE ~(j < i)
        <5>1. ~(j <= i - 1) /\ j - (i - 1) \in 1..(n - i) /\ i + (j - (i - 1)) = j + 1
          BY <1>1, <1>6, <4>2
        <5>2. new[j] = back[j - (i - 1)]
          BY <2>2, <3>1, <3>2, <5>1
        <5> QED
          BY <2>3, <4>2, <5>1, <5>2
      <4> QED
        BY <4>1, <4>2
    <3>4. DOMAIN new = 1..(n - 1)
      BY <3>1, <3>2, LenProperties
    <3> QED
      BY <3>1, <3>3, <3>4
  <2> DEFINE from(j) == IF j < i THEN j ELSE j + 1
  <2>5. \A j \in 1..(n - 1) : from(j) \in 1..n /\ from(j) # i /\ new[j] = bucket[from(j)]
    <3>1. \A j \in 1..(n - 1) : from(j) \in 1..n /\ from(j) # i
      BY <1>1, <1>6
    <3> QED
      BY <2>4, <3>1
  <2>6. \A j, k \in 1..(n - 1) : from(j) = from(k) => j = k
    BY <1>1, <1>6
  <2>7. \A k \in 1..n : k # i => \E j \in 1..(n - 1) : from(j) = k
    <3> SUFFICES ASSUME NEW k \in 1..n, k # i PROVE \E j \in 1..(n - 1) : from(j) = k
      OBVIOUS
    <3>1. CASE k < i
      <4>1. k \in 1..(n - 1) /\ from(k) = k
        BY <1>1, <1>6, <3>1
      <4> QED
        BY <4>1
    <3>2. CASE ~(k < i)
      <4>1. k - 1 \in 1..(n - 1) /\ from(k - 1) = k
        BY <1>1, <1>6, <3>2
      <4> QED
        BY <4>1
    <3> QED
      BY <3>1, <3>2
  <2> HIDE DEF from
  <2>8. ASSUME Unique(bucket) PROVE Unique(new)
    BY <1>1, <2>4, <2>5, <2>6, <2>8 DEF Unique
  <2>9. ASSUME Unique(bucket) PROVE Range(new) = {y \in Range(bucket) : y.id # id}
    <3>1. \A y : y \in Range(new) <=> \E j \in 1..(n - 1) : y = bucket[from(j)]
      BY <2>4, <2>5 DEF Range
    <3>2. \A y : y \in Range(new) <=> \E k \in 1..n : k # i /\ y = bucket[k]
      BY <2>5, <2>7, <3>1
    <3>3. \A k \in 1..n : k # i <=> bucket[k].id # id
      BY <1>1, <1>6, <2>9 DEF Unique
    <3> QED
      BY <1>4, <3>2, <3>3
  <2> QED
    BY <2>4, <2>8, <2>9 DEF new
<1> QED
  BY <1>3, <1>5, <1>6

\* applyOp keeps a bucket a sequence of what the operations name.
LEMMA BucketKept ==
  ASSUME NEW k, NEW bucket \in Seq(ItemsOf(k)), NEW op \in OpsOfKind(k)
  PROVE  ApplyToBucket(bucket, op) \in Seq(ItemsOf(k))
<1>1. [id |-> EntryIdFor(op), entry |-> op.entry] \in ItemsOf(k)
  BY DEF ItemsOf
<1>2. MapSet(bucket, EntryIdFor(op), op.entry) \in Seq(ItemsOf(k))
  BY <1>1, MapSetIs
<1>3. MapDelete(bucket, op.entry_id) \in Seq(ItemsOf(k))
  BY MapDeleteIs
<1> QED
  BY <1>2, <1>3, Zenon DEF ApplyToBucket

\* The value of a bucket after each set of operations: as the fold is defined.
BucketTurns(k, bucket, ops, f) ==
  f = [S \in SUBSET DOMAIN ops |->
        IF S = {} THEN bucket
        ELSE IF ops[Max(S)].kind = k THEN ApplyToBucket(f[S \ {Max(S)}], ops[Max(S)])
        ELSE f[S \ {Max(S)}]]

\* A bucket after the operations of a message (applyOps).
AfterOps(k, bucket, ops) ==
  FoldLeft(LAMBDA b, op : IF op.kind = k THEN ApplyToBucket(b, op) ELSE b, bucket, ops)

\* It is what they make of it one after the other.
LEMMA OperationsFold ==
  ASSUME NEW k, NEW m \in PolicyMessages, NEW bucket \in Seq(ItemsOf(k))
  PROVE  \E f :
           /\ f[{}] = bucket
           /\ \A j \in 1..Len(m.operations) :
                f[1..j] = IF m.operations[j].kind = k THEN ApplyToBucket(f[1..(j - 1)], m.operations[j])
                                                     ELSE f[1..(j - 1)]
           /\ AfterOps(k, bucket, m.operations) = f[1..Len(m.operations)]
<1> DEFINE ops == m.operations
           n == Len(ops)
           A == Seq(ItemsOf(k))
           next(b, i) == IF ops[i].kind = k THEN ApplyToBucket(b, ops[i]) ELSE b
           turn == [x \in A \X (1..n) |-> next(x[1], x[2])]
           f == CHOOSE f : BucketTurns(k, bucket, ops, f)
<1>1. n \in Nat /\ DOMAIN ops = 1..n
  BY PolicyAssumption
<1>2. ASSUME NEW b \in A, NEW i \in 1..n PROVE next(b, i) \in A
  <2>1. CASE ops[i].kind = k
    <3>1. ops[i] \in {m.operations[j] : j \in DOMAIN m.operations}
      BY <1>1
    <3>2. ops[i] \in OpsOfKind(k)
      BY <2>1, <3>1, Zenon DEF OpsOfKind
    <3> HIDE DEF ops
    <3> QED
      BY <2>1, <3>2, BucketKept
  <2>2. CASE ops[i].kind # k
    BY <2>2
  <2> QED
    BY <2>1, <2>2
<1> HIDE DEF A, n, next
<1>3. turn \in [A \X (1..n) -> A] /\ \A b \in A, i \in 1..n : turn[<<b, i>>] = next(b, i)
  <2>1. \A x \in A \X (1..n) : next(x[1], x[2]) \in A
    BY <1>2
  <2> QED
    BY <2>1
<1> HIDE DEF turn
<1>4. bucket \in A
  BY DEF A
<1>5. PICK g \in [SUBSET (1..n) -> A] : Folded(g, n, bucket, turn)
  BY <1>1, <1>3, <1>4, FoldExists
<1>6. \A S \in SUBSET (1..n) : S # {} => Max(S) \in 1..n
  BY <1>1, GreatestIndex
<1>7. BucketTurns(k, bucket, ops, g)
  <2> DEFINE h(S) == IF S = {} THEN bucket ELSE next(g[S \ {Max(S)}], Max(S))
  <2>1. ASSUME NEW S \in SUBSET (1..n) PROVE g[S] = h(S)
    <3>1. CASE S = {}
      BY <1>5, <3>1 DEF Folded
    <3>2. CASE S # {}
      <4>1. S \ {Max(S)} \in SUBSET (1..n) /\ Max(S) \in 1..n
        BY <1>6, <3>2
      <4>2. g[S \ {Max(S)}] \in A
        BY <4>1
      <4>3. g[S] = turn[<<g[S \ {Max(S)}], Max(S)>>]
        BY <1>5, <3>2 DEF Folded
      <4> QED
        BY <1>3, <3>2, <4>1, <4>2, <4>3
    <3> QED
      BY <3>1, <3>2
  <2> HIDE DEF h
  <2>2. g = [S \in SUBSET (1..n) |-> h(S)]
    BY <2>1
  <2> QED
    BY <1>1, <2>2, Zenon DEF BucketTurns, h, next
<1>8. BucketTurns(k, bucket, ops, f)
  BY <1>7, Zenon
<1> HIDE DEF f
<1>9. \A S \in SUBSET (1..n) : f[S] = IF S = {} THEN bucket ELSE next(f[S \ {Max(S)}], Max(S))
  <2> DEFINE h(S) == IF S = {} THEN bucket ELSE next(f[S \ {Max(S)}], Max(S))
  <2>1. f = [S \in SUBSET (1..n) |-> h(S)]
    BY <1>1, <1>8, Zenon DEF BucketTurns, next
  <2> HIDE DEF h
  <2>2. \A S \in SUBSET (1..n) : f[S] = h(S)
    BY <2>1, Zenon
  <2> QED
    BY <2>2 DEF h
<1>10. \A j \in 1..n : f[1..j] = next(f[1..(j - 1)], j)
  <2> TAKE j \in 1..n
  <2>1. j \in Nat /\ j # 0 /\ 1..j \in SUBSET (1..n) /\ 1..j # {}
    <3>1. n \in Nat /\ j \in Nat /\ j # 0 /\ j <= n /\ j \in 1..j
      BY <1>1
    <3>2. \A y \in 1..j : y \in 1..n
      BY <3>1
    <3> QED
      BY <3>1, <3>2
  <2>2. Max(1..j) = j /\ (1..j) \ {Max(1..j)} = 1..(j - 1)
    BY <2>1, LastOf
  <2>3. f[1..j] = next(f[(1..j) \ {Max(1..j)}], Max(1..j))
    BY <1>9, <2>1
  <2> QED
    BY <2>2, <2>3
<1>11. AfterOps(k, bucket, ops) = f[1..n]
  <2>1. AfterOps(k, bucket, ops) = (CHOOSE h : BucketTurns(k, bucket, ops, h))[DOMAIN ops]
    BY Zenon DEF AfterOps, FoldLeft, MapThenFoldSet, BucketTurns
  <2> QED
    BY <1>1, <2>1, Zenon DEF f
<1>12. f[{}] = bucket
  BY <1>9
<1> QED
  BY <1>10, <1>11, <1>12, Zenon DEF next, n

\* So it stays a sequence of what the operations name.
LEMMA OperationsKept ==
  ASSUME NEW k, NEW m \in PolicyMessages, NEW bucket \in Seq(ItemsOf(k))
  PROVE  AfterOps(k, bucket, m.operations) \in Seq(ItemsOf(k))
<1> DEFINE ops == m.operations
           n == Len(ops)
           A == [j \in 0..n |-> Seq(ItemsOf(k))]
<1>1. n \in Nat /\ DOMAIN ops = 1..n
  BY PolicyAssumption
<1>2. PICK f : /\ f[{}] = bucket
               /\ \A j \in 1..n : f[1..j] = IF ops[j].kind = k THEN ApplyToBucket(f[1..(j - 1)], ops[j])
                                                               ELSE f[1..(j - 1)]
               /\ AfterOps(k, bucket, ops) = f[1..n]
  BY OperationsFold
<1> HIDE DEF n
<1>3. \A j \in 0..n : A[j] = Seq(ItemsOf(k))
  OBVIOUS
<1> HIDE DEF A
<1>4. ASSUME NEW j \in 1..n, f[1..(j - 1)] \in A[j - 1] PROVE f[1..j] \in A[j]
  <2>1. j \in 0..n /\ j - 1 \in 0..n
    BY <1>1
  <2>2. f[1..(j - 1)] \in Seq(ItemsOf(k))
    BY <1>3, <1>4, <2>1
  <2>3. CASE ops[j].kind = k
    <3>1. ops[j] \in {m.operations[i] : i \in DOMAIN m.operations}
      BY <1>1
    <3>2. ops[j] \in OpsOfKind(k)
      BY <2>3, <3>1, Zenon DEF OpsOfKind
    <3> HIDE DEF ops
    <3>3. ApplyToBucket(f[1..(j - 1)], ops[j]) \in Seq(ItemsOf(k))
      BY <2>2, <3>2, BucketKept
    <3> QED
      BY <1>2, <1>3, <2>1, <2>3, <3>3
  <2>4. CASE ops[j].kind # k
    BY <1>2, <1>3, <2>1, <2>2, <2>4
  <2> QED
    BY <2>3, <2>4
<1>5. f[{}] \in A[0]
  <2>1. 0 \in 0..n
    BY <1>1
  <2> QED
    BY <1>2, <1>3, <2>1
<1>6. f[1..n] \in A[n]
  BY <1>1, <1>4, <1>5, FoldStays
<1>7. n \in 0..n
  BY <1>1
<1> QED
  BY <1>2, <1>3, <1>6, <1>7

-----------------------------------------------------------------------------
(* A lookup answers a block list *)

BlockEntries == {op.entry : op \in OpsOfKind(BlockKind)} \ {NoEntry}

\* The list after each set of items: as the fold is defined.
ListTurns(items, f) ==
  f = [S \in SUBSET DOMAIN items |->
        IF S = {} THEN <<>>
        ELSE IF items[Max(S)].entry = NoEntry THEN f[S \ {Max(S)}]
        ELSE Append(f[S \ {Max(S)}], items[Max(S)].entry)]

\* What the fold answers.
ListFrom(items) == (CHOOSE f : ListTurns(items, f))[DOMAIN items]

LEMMA LookupIs == BlockListOf(UserId) = ListFrom(listEntries[BlockKind])
BY Zenon DEF BlockListOf, FoldLeft, MapThenFoldSet, ListTurns, ListFrom

\* A lookup answers a block list when the user's bucket is one of such items.
LEMMA LookupAnswersList ==
  listEntries[BlockKind] \in Seq(ItemsOf(BlockKind)) => IsBlockList(BlockListOf(UserId))
<1> SUFFICES ASSUME listEntries[BlockKind] \in Seq(ItemsOf(BlockKind)) PROVE IsBlockList(BlockListOf(UserId))
  OBVIOUS
<1> DEFINE items == listEntries[BlockKind]
           n == Len(items)
           A == Seq(BlockEntries)
           next(list, i) == IF items[i].entry = NoEntry THEN list ELSE Append(list, items[i].entry)
           turn == [x \in A \X (1..n) |-> next(x[1], x[2])]
           f == CHOOSE f : ListTurns(items, f)
<1>1. n \in Nat /\ DOMAIN items = 1..n /\ \A i \in 1..n : items[i] \in ItemsOf(BlockKind)
  BY LenProperties, ElementOfSeq
<1>2. ASSUME NEW list \in A, NEW i \in 1..n PROVE next(list, i) \in A
  <2>1. CASE items[i].entry = NoEntry
    BY <2>1
  <2>2. CASE items[i].entry # NoEntry
    <3>1. items[i] \in ItemsOf(BlockKind)
      BY <1>1
    <3>2. PICK op \in OpsOfKind(BlockKind) : items[i].entry = op.entry
      BY <3>1 DEF ItemsOf
    <3> DEFINE e == items[i].entry
    <3>3. e \in BlockEntries
      BY <2>2, <3>2 DEF BlockEntries
    <3> HIDE DEF e
    <3>4. Append(list, e) \in A
      BY <3>3, AppendProperties
    <3> QED
      BY <2>2, <3>4 DEF e
  <2> QED
    BY <2>1, <2>2
<1> HIDE DEF A, n, next
<1>3. turn \in [A \X (1..n) -> A] /\ \A list \in A, i \in 1..n : turn[<<list, i>>] = next(list, i)
  <2>1. \A x \in A \X (1..n) : next(x[1], x[2]) \in A
    BY <1>2
  <2> QED
    BY <2>1
<1> HIDE DEF turn
<1>4. <<>> \in A
  BY EmptySeq DEF A
<1>5. PICK g \in [SUBSET (1..n) -> A] : Folded(g, n, <<>>, turn)
  BY <1>1, <1>3, <1>4, FoldExists
<1>6. \A S \in SUBSET (1..n) : S # {} => Max(S) \in 1..n
  BY <1>1, GreatestIndex
<1>7. ListTurns(items, g)
  <2> DEFINE h(S) == IF S = {} THEN <<>> ELSE next(g[S \ {Max(S)}], Max(S))
  <2>1. ASSUME NEW S \in SUBSET (1..n) PROVE g[S] = h(S)
    <3>1. CASE S = {}
      BY <1>5, <3>1 DEF Folded
    <3>2. CASE S # {}
      <4>1. S \ {Max(S)} \in SUBSET (1..n) /\ Max(S) \in 1..n
        BY <1>6, <3>2
      <4>2. g[S \ {Max(S)}] \in A
        BY <4>1
      <4>3. g[S] = turn[<<g[S \ {Max(S)}], Max(S)>>]
        BY <1>5, <3>2 DEF Folded
      <4> QED
        BY <1>3, <3>2, <4>1, <4>2, <4>3
    <3> QED
      BY <3>1, <3>2
  <2> HIDE DEF h
  <2>2. g = [S \in SUBSET (1..n) |-> h(S)]
    BY <2>1
  <2> QED
    BY <1>1, <2>2, Zenon DEF ListTurns, h, next
<1>8. ListTurns(items, f)
  BY <1>7, Zenon
<1> HIDE DEF f
<1>9. \A S \in SUBSET (1..n) : f[S] = IF S = {} THEN <<>> ELSE next(f[S \ {Max(S)}], Max(S))
  <2> DEFINE h(S) == IF S = {} THEN <<>> ELSE next(f[S \ {Max(S)}], Max(S))
  <2>1. f = [S \in SUBSET (1..n) |-> h(S)]
    BY <1>1, <1>8, Zenon DEF ListTurns, next
  <2> HIDE DEF h
  <2>2. \A S \in SUBSET (1..n) : f[S] = h(S)
    BY <2>1, Zenon
  <2> QED
    BY <2>2 DEF h
<1>10. f[1..n] \in A
  <2> DEFINE As == [k \in 0..n |-> A]
  <2>0. \A k \in 0..n : As[k] = A
    OBVIOUS
  <2> HIDE DEF As
  <2>1. f[{}] \in A
    BY <1>4, <1>9
  <2>2. ASSUME NEW k \in 1..n, f[1..(k - 1)] \in A PROVE f[1..k] \in A
    <3>1. k \in Nat /\ k # 0 /\ 1..k \in SUBSET (1..n) /\ 1..k # {}
      <4>1. n \in Nat /\ k \in Nat /\ k # 0 /\ k <= n /\ k \in 1..k
        BY <1>1
      <4>2. \A y \in 1..k : y \in 1..n
        BY <4>1
      <4> QED
        BY <4>1, <4>2
    <3>2. Max(1..k) = k /\ (1..k) \ {Max(1..k)} = 1..(k - 1)
      BY <3>1, LastOf
    <3>3. f[1..k] = next(f[(1..k) \ {Max(1..k)}], Max(1..k))
      BY <1>9, <3>1
    <3>4. f[1..k] = next(f[1..(k - 1)], k)
      BY <3>2, <3>3
    <3> QED
      BY <1>2, <2>2, <3>4
  <2> QED
    <3>1. 0 \in 0..n /\ n \in 0..n /\ \A k \in 1..n : k \in 0..n /\ k - 1 \in 0..n
      BY <1>1
    <3>2. f[{}] \in As[0] /\ \A k \in 1..n : f[1..(k - 1)] \in As[k - 1] => f[1..k] \in As[k]
      BY <2>0, <2>1, <2>2, <3>1
    <3>3. f[1..n] \in As[n]
      BY <1>1, <3>2, FoldStays
    <3> QED
      BY <2>0, <3>1, <3>3
<1>11. BlockListOf(UserId) = f[1..n]
  <2>1. BlockListOf(UserId) = f[DOMAIN items]
    BY LookupIs, Zenon DEF ListFrom, f
  <2> QED
    BY <1>1, <2>1
<1> DEFINE list == BlockListOf(UserId)
<1>12. list \in Seq(BlockEntries)
  BY <1>10, <1>11, Zenon DEF A
<1> HIDE DEF list
<1>13. ASSUME NEW e \in BlockEntries PROVE e # NoMatch
  <2>1. PICK op \in OpsOfKind(BlockKind) : op.entry = e /\ e # NoEntry
    BY <1>13 DEF BlockEntries
  <2>2. PICK m \in PolicyMessages : op \in {m.operations[i] : i \in DOMAIN m.operations}
    BY <2>1 DEF OpsOfKind
  <2>3. PICK i \in DOMAIN m.operations : op = m.operations[i]
    BY <2>2
  <2>4. op.kind = BlockKind
    BY <2>1 DEF OpsOfKind
  <2> QED
    BY <2>1, <2>3, <2>4, PipelineAssumption, Zenon
<1>14. Len(list) \in Nat /\ DOMAIN list = 1..Len(list) /\ \A i \in 1..Len(list) : list[i] \in BlockEntries
  BY <1>12, LenProperties, ElementOfSeq
<1>15. IsBlockList(list)
  BY <1>13, <1>14 DEF IsBlockList
<1> QED
  BY <1>15 DEF list

-----------------------------------------------------------------------------
(* What a block list lets through *)

\* What is stored for the user was let through by a list the call has seen.
LetThrough ==
  \A p \in 1..Len(stored[UserId]) :
    LET c == stored[UserId][p].item[1] IN
    \E list \in lists[c] : MatchBlockList(list, Sender(env[c]), stored[UserId][p].at) = NoMatch

BlockInv ==
  /\ DOMAIN pc = Calls /\ DOMAIN blockList = Calls /\ DOMAIN lists = Calls
  /\ listEntries[BlockKind] \in Seq(ItemsOf(BlockKind))
  /\ \A c \in Calls : \A list \in lists[c] : IsBlockList(list)
  /\ \A c \in Calls : pc[c] = "lookup" /\ Recipient(c) = UserId => blockList[c] \in lists[c]
  /\ LetThrough

\* Policy messages leave the user's bucket made of what they named.
LEMMA BucketStep ==
  ASSUME listEntries[BlockKind] \in Seq(ItemsOf(BlockKind)), [Next]_vars
  PROVE  listEntries'[BlockKind] \in Seq(ItemsOf(BlockKind))
<1>1. [PolicyNext]_policyVars
  BY NextIsPolicyStep
<1>2. CASE UNCHANGED policyVars
  BY <1>2 DEF policyVars
<1>3. ASSUME NEW m \in PolicyMessages, Apply(m) PROVE listEntries'[BlockKind] \in Seq(ItemsOf(BlockKind))
  <2>1. BlockKind \in ListKinds
    BY PipelineAssumption
  <2>2. listEntries' = [k \in ListKinds |-> AfterOps(k, listEntries[k], m.operations)]
    BY <1>3, Zenon DEF Apply, ApplyOps, AfterOps
  <2>3. listEntries'[BlockKind] = AfterOps(BlockKind, listEntries[BlockKind], m.operations)
    BY <2>1, <2>2, Zenon
  <2> QED
    BY <2>3, OperationsKept
<1> QED
  BY <1>1, <1>2, <1>3 DEF PolicyNext

\* A call sees the list of every state it is in, and forgets none.
LEMMA ListsSeen ==
  ASSUME BlockInv, [Next]_vars
  PROVE  /\ DOMAIN lists' = Calls
         /\ \A c \in Calls : lists[c] \subseteq lists'[c]
         /\ \A c \in Calls : \A list \in lists'[c] : list \in lists[c] \/ list = BlockListOf(UserId)'
<1>1. CASE UNCHANGED vars
  <2>1. lists' = lists
    BY <1>1 DEF vars, seenVars
  <2> QED
    BY <2>1 DEF BlockInv
<1>2. CASE Next
  <2>1. lists' = [c \in Calls |-> lists[c] \cup
          (IF ~Ended(pc[c]) /\ pc'[c] # "idle" THEN {BlockListOf(UserId)'} ELSE {})]
    BY <1>2, Zenon DEF Next, Observe
  <2> QED
    BY <2>1
<1> QED
  BY <1>1, <1>2

\* A call that a step does not move still waits for a list it has seen.
LEMMA StillWaits ==
  ASSUME BlockInv, [Next]_vars, NEW c \in Calls,
         pc'[c] = pc[c], results'[c] = results[c], blockList'[c] = blockList[c]
  PROVE  pc'[c] = "lookup" /\ Recipient(c)' = UserId => blockList'[c] \in lists'[c]
<1>1. env' = env
  BY DEF Next, vars
<1>2. Recipient(c)' = Recipient(c)
  BY <1>1 DEF Recipient
<1>3. lists[c] \subseteq lists'[c]
  BY ListsSeen
<1>4. pc[c] = "lookup" /\ Recipient(c) = UserId => blockList[c] \in lists[c]
  BY DEF BlockInv
<1> QED
  BY <1>2, <1>3, <1>4

\* What was let through stays so as a call sees more lists.
LEMMA StaysLetThrough ==
  ASSUME MailInv, BlockInv, [Next]_vars, NEW p \in 1..Len(stored[UserId])
  PROVE  LET c == stored[UserId][p].item[1] IN
         \E list \in lists'[c] : MatchBlockList(list, Sender(env'[c]), stored[UserId][p].at) = NoMatch
<1> DEFINE c == stored[UserId][p].item[1]
<1>1. env' = env
  BY DEF Next, vars
<1>2. Box(inbox[UserId], stored[UserId], fetched[UserId])
  BY PipelineAssumption DEF MailInv
<1>3. c \in Calls
  BY <1>2, ItemNames DEF Box
<1>4. PICK list \in lists[c] : MatchBlockList(list, Sender(env[c]), stored[UserId][p].at) = NoMatch
  BY DEF BlockInv, LetThrough
<1>5. list \in lists'[c]
  BY <1>3, ListsSeen
<1> QED
  BY <1>1, <1>4, <1>5

\* A delivery stores only what the list it waited for lets through.
LEMMA StoredLetThrough ==
  ASSUME MailInv, BlockInv, [Next]_vars, NEW c \in Calls, ListResolved(c), UNCHANGED now
  PROVE  LetThrough'
<1> DEFINE r == Recipient(c)
           entry == MatchBlockList(blockList[c], Sender(env[c]), now)
           x == <<c, Len(results[c]) + 1>>
<1>1. env' = env
  BY DEF Next, vars
<1>2. /\ UserId \in LocalRecipients /\ DOMAIN stored = LocalRecipients
      /\ Box(inbox[UserId], stored[UserId], fetched[UserId])
  BY PipelineAssumption DEF MailInv
<1>3. stored[UserId] \in Seq(Entries) /\ Len(stored[UserId]) \in Nat
  BY <1>2, LenProperties DEF Box
<1>4. CASE stored'[UserId] = stored[UserId]
  BY <1>4, StaysLetThrough, Zenon DEF LetThrough
<1>5. CASE entry = NoMatch /\ Store(r, x) /\ r = UserId
  <2> DEFINE e == [item |-> x, at |-> now]
             st == stored[UserId]
  <2>1. stored'[UserId] = Append(st, e)
    BY <1>2, <1>5 DEF Store
  <2>2. e.item[1] = c /\ e.at = now
    OBVIOUS
  <2> HIDE DEF e, st
  <2>3. st \in Seq(Entries) /\ Len(st) \in Nat
    BY <1>3 DEF st
  <2>4. /\ Len(stored'[UserId]) = Len(st) + 1 /\ stored'[UserId][Len(st) + 1] = e
        /\ \A p \in 1..Len(st) : stored'[UserId][p] = st[p]
    <3>1. st \in Seq(Entries \cup {e}) /\ e \in Entries \cup {e}
      BY <2>3, SeqMonotonic
    <3> QED
      BY <2>1, <3>1, AppendProperties
  <2>5. pc[c] = "lookup" /\ blockList[c] \in lists[c]
    BY <1>5 DEF ListResolved, BlockInv
  <2>6. blockList[c] \in lists'[c]
    BY <2>5, ListsSeen
  <2>7. ASSUME NEW p \in 1..Len(stored'[UserId])
        PROVE  LET d == stored'[UserId][p].item[1] IN
               \E list \in lists'[d] :
                 MatchBlockList(list, Sender(env'[d]), stored'[UserId][p].at) = NoMatch
    <3>1. CASE p = Len(st) + 1
      BY <1>1, <1>5, <2>2, <2>4, <2>6, <3>1, Zenon
    <3>2. CASE p # Len(st) + 1
      <4>1. p \in 1..Len(st)
        BY <2>3, <2>4, <3>2
      <4>2. stored'[UserId][p] = stored[UserId][p] /\ p \in 1..Len(stored[UserId])
        BY <2>4, <4>1 DEF st
      <4> QED
        BY <4>2, StaysLetThrough, Zenon
    <3> QED
      BY <3>1, <3>2
  <2> QED
    BY <2>7, Zenon DEF LetThrough
<1>6. stored'[UserId] = stored[UserId] \/ (entry = NoMatch /\ Store(r, x) /\ r = UserId)
  <2>1. (entry # NoMatch /\ UNCHANGED mailVars) \/ (entry = NoMatch /\ Store(r, x))
    BY Zenon DEF ListResolved
  <2>2. UNCHANGED mailVars => stored' = stored
    BY DEF mailVars
  <2>3. Store(r, x) /\ r # UserId => stored'[UserId] = stored[UserId]
    BY <1>2 DEF Store
  <2> QED
    BY <2>1, <2>2, <2>3
<1> QED
  BY <1>4, <1>5, <1>6

\* A call that a step moves waits for the list of this state, which it has seen.
LEMMA MovedWaits ==
  ASSUME JudgeInv, MailInv, BlockInv, Next, NEW c \in Calls, Process(c) \/ CallStep(c),
         UNCHANGED policyVars
  PROVE  /\ DOMAIN blockList' = Calls
         /\ pc'[c] = "lookup" /\ Recipient(c)' = UserId => blockList'[c] \in lists'[c]
         /\ \A d \in Calls : d # c => results'[d] = results[d] /\ blockList'[d] = blockList[d]
<1> DEFINE Others == /\ DOMAIN blockList' = Calls
                     /\ \A d \in Calls : d # c => results'[d] = results[d] /\ blockList'[d] = blockList[d]
<1>1. /\ DOMAIN pc = Calls /\ DOMAIN blockList = Calls /\ DOMAIN results = Calls
  BY DEF BlockInv, MailInv
<1>2. ASSUME NEW k, Reject(c, k) PROVE pc'[c] # "lookup"
  BY <1>1, <1>2 DEF Reject
<1>3. ASSUME AfterSession(c) PROVE pc'[c] # "lookup"
  BY <1>1, <1>2, <1>3 DEF AfterSession
<1>4. ASSUME AfterSignature(c) PROVE pc'[c] # "lookup"
  BY <1>1, <1>2, <1>3, <1>4 DEF AfterSignature
<1>5. CASE Process(c)
  BY <1>1, <1>4, <1>5 DEF Process
<1>6. CASE KeyResolved(c) \/ SessionResolved(c) \/ SessionLookupFails(c)
  BY <1>1, <1>2, <1>3, <1>4, <1>6 DEF KeyResolved, SessionResolved, SessionLookupFails
<1>7. CASE LookupThrows(c) \/ ListResolved(c)
  BY <1>1, <1>7 DEF LookupThrows, ListResolved, Push
<1>8. CASE DeliverOne(c)
  <2>1. Others /\ (pc'[c] = "lookup" =>
          /\ pc[c] = "deliver" /\ blockList'[c] = BlockListOf(Recipient(c)) /\ results' = results)
    BY <1>1, <1>8 DEF DeliverOne, Push
  <2>2. ASSUME pc'[c] = "lookup", Recipient(c)' = UserId PROVE blockList'[c] \in lists'[c]
    <3>1. Recipient(c) = UserId
      BY <2>1, <2>2 DEF Recipient, Next
    <3>2. blockList'[c] = BlockListOf(UserId)
      BY <2>1, <2>2, <3>1
    <3>3. BlockListOf(UserId)' = BlockListOf(UserId)
      <4>1. listEntries' = listEntries
        BY DEF policyVars
      <4>2. (BlockListOf(UserId) = ListFrom(listEntries[BlockKind]))'
        BY LookupIs, PTL
      <4>3. ListFrom(listEntries[BlockKind])' = ListFrom(listEntries'[BlockKind])
        BY Zenon DEF ListFrom, ListTurns
      <4> QED
        BY <4>1, <4>2, <4>3, LookupIs
    <3>4. ~Ended(pc[c]) /\ pc'[c] # "idle"
      BY <2>1, <2>2 DEF Ended
    <3>5. lists' = [d \in Calls |-> lists[d] \cup
            (IF ~Ended(pc[d]) /\ pc'[d] # "idle" THEN {BlockListOf(UserId)'} ELSE {})]
      BY Zenon DEF Next, Observe
    <3>6. BlockListOf(UserId)' \in lists'[c]
      BY <3>4, <3>5
    <3> QED
      BY <3>2, <3>3, <3>6
  <2> QED
    BY <2>1, <2>2
<1> QED
  BY <1>5, <1>6, <1>7, <1>8 DEF CallStep

\* Whatever the user's devices change and whenever, BlockInv is kept.
LEMMA BlockStep == JudgeInv /\ MailInv /\ BlockInv /\ [Next]_vars => BlockInv'
<1> SUFFICES ASSUME JudgeInv, MailInv, BlockInv, [Next]_vars PROVE BlockInv'
  OBVIOUS
<1>1. listEntries'[BlockKind] \in Seq(ItemsOf(BlockKind))
  BY BucketStep DEF BlockInv
<1>2. IsBlockList(BlockListOf(UserId))'
  <2>1. (listEntries[BlockKind] \in Seq(ItemsOf(BlockKind)))' => IsBlockList(BlockListOf(UserId))'
    BY LookupAnswersList, PTL
  <2> QED
    BY <1>1, <2>1
<1>3. DOMAIN lists' = Calls /\ \A c \in Calls : \A list \in lists'[c] : IsBlockList(list)
  <2>1. \A c \in Calls : \A list \in lists[c] : IsBlockList(list)
    BY DEF BlockInv
  <2>2. IsBlockList(BlockListOf(UserId)')
    BY <1>2 DEF IsBlockList
  <2>3. /\ DOMAIN lists' = Calls
        /\ \A c \in Calls : \A list \in lists'[c] : list \in lists[c] \/ list = BlockListOf(UserId)'
    BY ListsSeen
  <2> QED
    BY <2>1, <2>2, <2>3, Zenon
<1>4. ASSUME DOMAIN pc' = Calls, DOMAIN blockList' = Calls, LetThrough',
             \A c \in Calls : pc'[c] = "lookup" /\ Recipient(c)' = UserId => blockList'[c] \in lists'[c]
      PROVE  BlockInv'
  BY <1>1, <1>3, <1>4 DEF BlockInv
<1>5. CASE UNCHANGED <<pc, blockList, results, stored>>
  <2>1. LetThrough'
    BY <1>5, StaysLetThrough, Zenon DEF LetThrough
  <2>2. \A c \in Calls : pc'[c] = "lookup" /\ Recipient(c)' = UserId => blockList'[c] \in lists'[c]
    BY <1>5, StillWaits
  <2>3. DOMAIN pc' = Calls /\ DOMAIN blockList' = Calls
    BY <1>5 DEF BlockInv
  <2> QED
    BY <1>4, <2>1, <2>2, <2>3
<1>6. CASE UNCHANGED vars
  BY <1>5, <1>6 DEF vars, mailVars
<1>7. CASE OtherStep
  BY <1>5, <1>7 DEF OtherStep, mailVars
<1>8. ASSUME NEW r \in LocalRecipients, Drain(r) PROVE BlockInv'
  BY <1>5, <1>8 DEF Drain
<1>9. ASSUME Next, NEW c \in Calls, Process(c) \/ CallStep(c), UNCHANGED <<hookVars, policyVars>>
      PROVE  BlockInv'
  <2>1. DOMAIN pc' = Calls /\ \A d \in Calls : d # c => pc'[d] = pc[d]
    BY <1>9, OthersKept
  <2>2. /\ DOMAIN blockList' = Calls
        /\ pc'[c] = "lookup" /\ Recipient(c)' = UserId => blockList'[c] \in lists'[c]
        /\ \A d \in Calls : d # c => results'[d] = results[d] /\ blockList'[d] = blockList[d]
    BY <1>9, MovedWaits
  <2>3. \A d \in Calls : d # c =>
          (pc'[d] = "lookup" /\ Recipient(d)' = UserId => blockList'[d] \in lists'[d])
    BY <2>1, <2>2, StillWaits
  <2>4. \A d \in Calls : pc'[d] = "lookup" /\ Recipient(d)' = UserId => blockList'[d] \in lists'[d]
    BY <2>2, <2>3, Zenon
  <2>5. LetThrough'
    <3>1. CASE ListResolved(c)
      BY <1>9, <3>1, StoredLetThrough DEF hookVars
    <3>2. CASE ~ListResolved(c)
      <4>1. stored' = stored
        BY <1>9, <3>2 DEF Process, CallStep, KeyResolved, SessionResolved, SessionLookupFails,
                          DeliverOne, LookupThrows, mailVars
      <4> QED
        BY <4>1, StaysLetThrough, Zenon DEF LetThrough
    <3> QED
      BY <3>1, <3>2
  <2> QED
    BY <1>4, <2>1, <2>2, <2>4, <2>5
<1> QED
  BY <1>6, <1>7, <1>8, <1>9 DEF Next, ServerStep

\* deliverOne and matchBlockList: what is stored for the user was let through
\* by a list that was current while its envelope was processed, whatever the
\* policy messages of the devices did in between, and on every list they make
\* the loop finds the most specific entry.
THEOREM BlocksHoldHolds == Spec => []BlocksHold
<1>1. Init => JudgeInv
  BY DEF Init, JudgeInv, Asked, Judged
<1>2. Init => MailInv
  BY MailInit
<1>3. Init => BlockInv
  <2> SUFFICES ASSUME Init PROVE BlockInv
    OBVIOUS
  <2>1. stored[UserId] = <<>> /\ Len(<<>>) = 0 /\ 1..0 = {}
    BY PipelineAssumption DEF Init
  <2>2. LetThrough
    BY <2>1 DEF LetThrough
  <2>3. listEntries[BlockKind] = <<>>
    BY PipelineAssumption DEF Init, PolicyInit
  <2>4. listEntries[BlockKind] \in Seq(ItemsOf(BlockKind))
    BY <2>3, EmptySeq
  <2>5. /\ DOMAIN pc = Calls /\ DOMAIN blockList = Calls /\ DOMAIN lists = Calls
        /\ \A c \in Calls : lists[c] = {} /\ pc[c] = "idle"
    BY DEF Init
  <2> QED
    BY <2>2, <2>4, <2>5 DEF BlockInv
<1>4. MailInv /\ BlockInv => BlocksHold
  <2> SUFFICES ASSUME MailInv, BlockInv PROVE BlocksHold
    OBVIOUS
  <2>1. IsBlockList(BlockListOf(UserId))
    BY LookupAnswersList DEF BlockInv
  <2> DEFINE current == BlockListOf(UserId)
  <2> HIDE DEF current
  <2>2. \A s : MatchBlockList(current, s, now) = MostSpecific(current, s, now)
    BY <2>1, MatchFindsMostSpecific DEF current
  <2>3. Box(inbox[UserId], stored[UserId], fetched[UserId])
    BY PipelineAssumption DEF MailInv
  <2>4. stored[UserId] \in Seq(Entries) /\ DOMAIN stored[UserId] = 1..Len(stored[UserId])
    BY <2>3, LenProperties DEF Box
  <2>5. ASSUME NEW p \in DOMAIN stored[UserId]
        PROVE  \E list \in lists[stored[UserId][p].item[1]] :
                 MostSpecific(list, Sender(env[stored[UserId][p].item[1]]), stored[UserId][p].at) = NoMatch
    <3> DEFINE c == stored[UserId][p].item[1]
               s == Sender(env[c])
               at == stored[UserId][p].at
    <3>1. p \in 1..Len(stored[UserId])
      BY <2>4
    <3>2. c \in Calls
      BY <2>4, <3>1, ItemNames
    <3>3. PICK list \in lists[c] : MatchBlockList(list, s, at) = NoMatch
      BY <3>1, Zenon DEF BlockInv, LetThrough
    <3>4. IsBlockList(list)
      BY <3>2 DEF BlockInv
    <3> HIDE DEF s, at
    <3>5. MostSpecific(list, s, at) = NoMatch
      BY <3>3, <3>4, MatchFindsMostSpecific
    <3> QED
      BY <3>5, Zenon DEF s, at
  <2> QED
    BY <2>2, <2>5, Zenon DEF BlocksHold, current
<1> QED
  BY <1>1, <1>2, <1>3, <1>4, JudgeStep, MailStep, BlockStep, PTL DEF Spec
-----------------------------------------------------------------------------
(* The last operation on an id decides *)

\* Where a log of messages has operations of a kind, and the one at a place.
SpokenIn(log, k) ==
  UNION {{<<i, j>> : j \in {j \in DOMAIN log[i].operations : log[i].operations[j].kind = k}} :
         i \in DOMAIN log}
OpIn(log, p) == log[p[1]].operations[p[2]]
IdIn(log, p) == EntryIdFor(OpIn(log, p))

\* p is the last of the places S on its id.
LastIn(log, S, p) == \A q \in S : IdIn(log, q) = IdIn(log, p) => NotAfter(q, p)

\* The items of a bucket are what the operations at the places S leave.
Decided(items, log, p) ==
  /\ OpIn(log, p).op = "remove" => \A y \in items : y.id # IdIn(log, p)
  /\ OpIn(log, p).op # "remove" => \E y \in items : y.id = IdIn(log, p) /\ y.entry = OpIn(log, p).entry
Reflects(items, log, S) ==
  /\ \A p \in S : IdIn(log, p) # "" /\ LastIn(log, S, p) => Decided(items, log, p)
  /\ \A y \in items : y.id # "" /\ \E p \in S : y.id = IdIn(log, p)

\* An operation that comes after the places S changes its own id and no other.
LEMMA OneMoreReflected ==
  ASSUME NEW items, NEW new, NEW log, NEW S, NEW x, Reflects(items, log, S),
         \A q \in S : ~NotAfter(x, q),
         IdIn(log, x) # "" => Decided(new, log, x),
         \A y : y.id # IdIn(log, x) => (y \in new <=> y \in items),
         \A y \in new : y.id # ""
  PROVE  Reflects(new, log, S \cup {x})
<1> DEFINE T == S \cup {x}
<1>1. ASSUME NEW p \in T, IdIn(log, p) # "", LastIn(log, T, p) PROVE Decided(new, log, p)
  <2>1. CASE p = x
    BY <1>1, <2>1
  <2>2. CASE p # x
    <3>1. p \in S /\ ~NotAfter(x, p)
      BY <2>2
    <3>2. IdIn(log, p) # IdIn(log, x)
      BY <1>1, <3>1, Zenon DEF LastIn
    <3>3. LastIn(log, S, p)
      BY <1>1, Zenon DEF LastIn
    <3>4. Decided(items, log, p)
      BY <1>1, <3>1, <3>3, Zenon DEF Reflects
    <3>5. OpIn(log, p).op = "remove" => \A y \in new : y.id # IdIn(log, p)
      <4> SUFFICES ASSUME OpIn(log, p).op = "remove", NEW y \in new, y.id = IdIn(log, p) PROVE FALSE
        BY Zenon
      <4>1. y \in items
        BY <3>2, Zenon
      <4> QED
        BY <3>4, <4>1, Zenon DEF Decided
    <3>6. ASSUME OpIn(log, p).op # "remove"
          PROVE  \E y \in new : y.id = IdIn(log, p) /\ y.entry = OpIn(log, p).entry
      <4>1. PICK y \in items : y.id = IdIn(log, p) /\ y.entry = OpIn(log, p).entry
        BY <3>4, <3>6, Zenon DEF Decided
      <4>2. y \in new
        BY <3>2, <4>1, Zenon
      <4> QED
        BY <4>1, <4>2, Zenon
    <3> QED
      BY <3>5, <3>6, Zenon DEF Decided
  <2> QED
    BY <2>1, <2>2
<1>2. ASSUME NEW y \in new PROVE y.id # "" /\ \E p \in T : y.id = IdIn(log, p)
  <2>1. CASE y.id = IdIn(log, x)
    BY <1>2, <2>1, Zenon
  <2>2. CASE y.id # IdIn(log, x)
    <3>1. y \in items
      BY <1>2, <2>2, Zenon
    <3>2. PICK p \in S : y.id = IdIn(log, p)
      BY <3>1, Zenon DEF Reflects
    <3> QED
      BY <1>2, <3>2, Zenon
  <2> QED
    BY <2>1, <2>2
<1> QED
  BY <1>1, <1>2, Zenon DEF Reflects

\* applyOp, after the operations at the places S.
LEMMA OpReflected ==
  ASSUME NEW k, NEW bucket \in Seq(ItemsOf(k)), Unique(bucket), NEW log, NEW S, NEW x,
         Reflects(Range(bucket), log, S), \A q \in S : ~NotAfter(x, q),
         OpIn(log, x) \in OpsOfKind(k), ValidateOp(OpIn(log, x))
  PROVE  /\ Unique(ApplyToBucket(bucket, OpIn(log, x)))
         /\ Reflects(Range(ApplyToBucket(bucket, OpIn(log, x))), log, S \cup {x})
<1> DEFINE op == OpIn(log, x)
           id == IdIn(log, x)
           item == [id |-> id, entry |-> op.entry]
           new == ApplyToBucket(bucket, op)
<1>1. id = EntryIdFor(op)
  BY DEF IdIn
<1>2. \A y \in Range(bucket) : y.id # ""
  BY Zenon DEF Reflects
<1>3. item \in ItemsOf(k)
  BY DEF ItemsOf, IdIn
<1>4. CASE op.op = "remove"
  <2>1. op.entry_id # "" /\ id = op.entry_id
    BY <1>4 DEF ValidateOp, IdIn, EntryIdFor
  <2>2. new = MapDelete(bucket, id)
    BY <1>4, <2>1, Zenon DEF ApplyToBucket
  <2>3. Unique(new) /\ Range(new) = {y \in Range(bucket) : y.id # id}
    BY <2>2, MapDeleteIs
  <2> HIDE DEF new
  <2>4. Decided(Range(new), log, x)
    BY <1>4, <2>3 DEF Decided
  <2>5. \A y : y.id # id => (y \in Range(new) <=> y \in Range(bucket))
    BY <2>3
  <2>6. \A y \in Range(new) : y.id # ""
    BY <1>2, <2>3
  <2>7. Reflects(Range(new), log, S \cup {x})
    BY <2>4, <2>5, <2>6, OneMoreReflected
  <2> QED
    BY <2>3, <2>7 DEF new
<1>5. CASE op.op # "remove" /\ id = ""
  <2>1. new = bucket
    BY <1>1, <1>5, Zenon DEF ApplyToBucket
  <2>2. Reflects(Range(bucket), log, S \cup {x})
    BY <1>2, <1>5, OneMoreReflected
  <2> QED
    BY <2>1, <2>2
<1>6. CASE op.op # "remove" /\ id # ""
  <2>1. new = MapSet(bucket, id, op.entry)
    BY <1>1, <1>6, Zenon DEF ApplyToBucket
  <2>2. Unique(new) /\ Range(new) = {y \in Range(bucket) : y.id # id} \cup {item}
    BY <1>3, <2>1, MapSetIs
  <2>3. item.id = id /\ item.entry = op.entry
    OBVIOUS
  <2> HIDE DEF new, item
  <2>4. Decided(Range(new), log, x)
    <3>1. item \in Range(new)
      BY <2>2
    <3> QED
      BY <1>6, <2>3, <3>1, Zenon DEF Decided
  <2>5. \A y : y.id # id => (y \in Range(new) <=> y \in Range(bucket))
    BY <2>2, <2>3
  <2>6. \A y \in Range(new) : y.id # ""
    BY <1>2, <1>6, <2>2, <2>3
  <2>7. Reflects(Range(new), log, S \cup {x})
    BY <2>4, <2>5, <2>6, OneMoreReflected
  <2> QED
    BY <2>2, <2>7 DEF new
<1> QED
  BY <1>4, <1>5, <1>6

\* The places of a longer log: those of the log and those of the new message.
LEMMA SpokenMore ==
  ASSUME NEW k, NEW m \in PolicyMessages, NEW log \in Seq(PolicyMessages)
  PROVE  LET longer == Append(log, m)
             n == Len(log) + 1
         IN /\ SpokenIn(longer, k) = SpokenIn(log, k) \cup
                 {<<n, j>> : j \in {j \in DOMAIN m.operations : m.operations[j].kind = k}}
            /\ \A p \in SpokenIn(log, k) : OpIn(longer, p) = OpIn(log, p) /\ p[1] \in 1..Len(log)
            /\ \A j : OpIn(longer, <<n, j>>) = m.operations[j]
<1> DEFINE longer == Append(log, m)
           n == Len(log) + 1
           said(l, i) == {<<i, j>> : j \in {j \in DOMAIN l[i].operations : l[i].operations[j].kind = k}}
<1>1. /\ Len(log) \in Nat /\ DOMAIN log = 1..Len(log) /\ DOMAIN longer = 1..n
      /\ longer[n] = m /\ \A i \in 1..Len(log) : longer[i] = log[i]
  <2>1. /\ longer \in Seq(PolicyMessages) /\ Len(longer) = n
        /\ longer[n] = m /\ \A i \in 1..Len(log) : longer[i] = log[i]
    BY AppendProperties
  <2> HIDE DEF longer
  <2> QED
    BY <2>1, LenProperties
<1> HIDE DEF longer
<1>2. \A i \in 1..n : i \in 1..Len(log) \/ i = n
  BY <1>1
<1>3. n \in 1..n /\ \A i \in 1..Len(log) : i \in 1..n
  BY <1>1
<1> HIDE DEF n
<1>4. \A i \in 1..Len(log) : said(longer, i) = said(log, i)
  BY <1>1
<1>5. said(longer, n) = {<<n, j>> : j \in {j \in DOMAIN m.operations : m.operations[j].kind = k}}
  BY <1>1
<1>6. SpokenIn(longer, k) = UNION {said(longer, i) : i \in 1..n}
  BY <1>1, Zenon DEF SpokenIn
<1>7. SpokenIn(log, k) = UNION {said(log, i) : i \in 1..Len(log)}
  BY <1>1, Zenon DEF SpokenIn
<1>8. \A i : \A p \in said(log, i) : p[1] = i
  OBVIOUS
<1> HIDE DEF said
<1>9. SpokenIn(longer, k) = SpokenIn(log, k) \cup said(longer, n)
  <2>1. \A p : p \in SpokenIn(longer, k) <=> \E i \in 1..n : p \in said(longer, i)
    BY <1>6
  <2>2. \A p : p \in SpokenIn(log, k) <=> \E i \in 1..Len(log) : p \in said(log, i)
    BY <1>7
  <2>3. \A p : p \in SpokenIn(longer, k) <=> p \in SpokenIn(log, k) \/ p \in said(longer, n)
    BY <1>2, <1>3, <1>4, <2>1, <2>2, Zenon
  <2> QED
    BY <2>3
<1>10. ASSUME NEW p \in SpokenIn(log, k)
       PROVE  OpIn(longer, p) = OpIn(log, p) /\ p[1] \in 1..Len(log)
  <2>1. PICK i \in 1..Len(log) : p \in said(log, i)
    BY <1>7
  <2>2. p[1] = i
    BY <1>8, <2>1, Zenon
  <2>3. longer[p[1]] = log[p[1]]
    BY <1>1, <2>2
  <2> QED
    BY <2>2, <2>3, Zenon DEF OpIn
<1>11. \A j : OpIn(longer, <<n, j>>) = m.operations[j]
  BY <1>1 DEF OpIn
<1> QED
  BY <1>5, <1>9, <1>10, <1>11 DEF longer, n

\* apply, on one bucket: after every operation of the message.
LEMMA MessageReflected ==
  ASSUME NEW k, NEW m \in PolicyMessages, ValidateOps(m), NEW log \in Seq(PolicyMessages),
         NEW bucket \in Seq(ItemsOf(k)), Unique(bucket), Reflects(Range(bucket), log, SpokenIn(log, k))
  PROVE  LET new == AfterOps(k, bucket, m.operations)
             longer == Append(log, m)
         IN Unique(new) /\ Reflects(Range(new), longer, SpokenIn(longer, k))
<1> DEFINE ops == m.operations
           n == Len(ops)
           N == Len(log) + 1
           longer == Append(log, m)
           old == SpokenIn(log, k)
           Upto(j) == old \cup {<<N, i>> : i \in {i \in 1..j : ops[i].kind = k}}
           A == [j \in 0..n |-> {b \in Seq(ItemsOf(k)) : Unique(b) /\ Reflects(Range(b), longer, Upto(j))}]
<1>1. n \in Nat /\ DOMAIN ops = 1..n
  BY PolicyAssumption
<1>2. PICK f : /\ f[{}] = bucket
               /\ \A j \in 1..n : f[1..j] = IF ops[j].kind = k THEN ApplyToBucket(f[1..(j - 1)], ops[j])
                                                               ELSE f[1..(j - 1)]
               /\ AfterOps(k, bucket, ops) = f[1..n]
  BY OperationsFold
<1>3. /\ SpokenIn(longer, k) = old \cup {<<N, j>> : j \in {j \in DOMAIN ops : ops[j].kind = k}}
      /\ \A p \in old : OpIn(longer, p) = OpIn(log, p) /\ p[1] \in 1..Len(log)
      /\ \A j : OpIn(longer, <<N, j>>) = ops[j]
  BY SpokenMore, Zenon
<1>4. Len(log) \in Nat /\ N \in Nat /\ \A i \in 1..Len(log) : i < N /\ i # N
  BY LenProperties
<1> HIDE DEF longer, old, N, n
<1>5. \A j \in 0..n : A[j] = {b \in Seq(ItemsOf(k)) : Unique(b) /\ Reflects(Range(b), longer, Upto(j))}
  BY Zenon
<1> HIDE DEF A
<1>6. SpokenIn(longer, k) = Upto(n)
  BY <1>1, <1>3
<1>7. Reflects(Range(bucket), longer, old)
  <2>1. \A p \in old : IdIn(longer, p) = IdIn(log, p)
    BY <1>3 DEF IdIn
  <2>2. \A p \in old : LastIn(longer, old, p) <=> LastIn(log, old, p)
    BY <2>1 DEF LastIn
  <2>3. \A p \in old : Decided(Range(bucket), longer, p) <=> Decided(Range(bucket), log, p)
    BY <1>3, <2>1 DEF Decided
  <2>4. Reflects(Range(bucket), log, old)
    BY DEF old
  <2> QED
    BY <2>1, <2>2, <2>3, <2>4, Zenon DEF Reflects
<1>8. f[{}] \in A[0]
  <2>1. Upto(0) = old /\ 0 \in 0..n
    BY <1>1
  <2> QED
    BY <1>2, <1>5, <1>7, <2>1
<1>9. ASSUME NEW j \in 1..n, f[1..(j - 1)] \in A[j - 1] PROVE f[1..j] \in A[j]
  <2> DEFINE b == f[1..(j - 1)]
             x == <<N, j>>
  <2>1. j \in 0..n /\ j - 1 \in 0..n /\ j \in DOMAIN ops
    BY <1>1
  <2>2. b \in Seq(ItemsOf(k)) /\ Unique(b) /\ Reflects(Range(b), longer, Upto(j - 1))
    BY <1>5, <1>9, <2>1
  <2>3. CASE ops[j].kind = k
    <3>1. ops[j] \in {m.operations[i] : i \in DOMAIN m.operations}
      BY <1>1
    <3>2. ops[j] \in OpsOfKind(k)
      BY <2>3, <3>1, Zenon DEF OpsOfKind
    <3>3. ValidateOp(ops[j]) /\ OpIn(longer, x) = ops[j]
      BY <1>3, <2>1, Zenon DEF ValidateOps
    <3>4. ASSUME NEW q \in Upto(j - 1) PROVE ~NotAfter(x, q)
      <4>1. CASE q \in old
        <5>1. q[1] \in 1..Len(log)
          BY <1>3, <4>1
        <5>2. q[1] < N /\ q[1] # N /\ q[1] \in Nat
          BY <1>4, <5>1
        <5> QED
          BY <1>4, <5>2 DEF NotAfter
      <4>2. ASSUME NEW i \in 1..(j - 1), q = <<N, i>> PROVE ~NotAfter(x, q)
        <5>1. ~(j <= i) /\ ~(N < N)
          BY <1>4
        <5> QED
          BY <4>2, <5>1 DEF NotAfter
      <4> QED
        BY <4>1, <4>2
    <3>5. Upto(j) = Upto(j - 1) \cup {x}
      <4>1. \A i : i \in 1..j <=> i \in 1..(j - 1) \/ i = j
        BY <1>1
      <4> QED
        BY <2>3, <4>1
    <3> HIDE DEF b, x, Upto, ops
    <3>6. OpIn(longer, x) \in OpsOfKind(k) /\ ValidateOp(OpIn(longer, x))
      BY <3>2, <3>3
    <3>7. /\ ApplyToBucket(b, ops[j]) \in Seq(ItemsOf(k))
          /\ Unique(ApplyToBucket(b, ops[j]))
          /\ Reflects(Range(ApplyToBucket(b, ops[j])), longer, Upto(j - 1) \cup {x})
      <4>1. ApplyToBucket(b, ops[j]) \in Seq(ItemsOf(k))
        BY <2>2, <3>2, BucketKept
      <4>2. /\ Unique(ApplyToBucket(b, OpIn(longer, x)))
            /\ Reflects(Range(ApplyToBucket(b, OpIn(longer, x))), longer, Upto(j - 1) \cup {x})
        BY <2>2, <3>4, <3>6, OpReflected
      <4> QED
        BY <3>3, <4>1, <4>2
    <3>8. f[1..j] = ApplyToBucket(b, ops[j])
      BY <1>2, <2>3 DEF b
    <3>9. f[1..j] \in Seq(ItemsOf(k)) /\ Unique(f[1..j]) /\ Reflects(Range(f[1..j]), longer, Upto(j))
      <4> DEFINE after == ApplyToBucket(b, ops[j])
      <4> HIDE DEF after
      <4>1. f[1..j] = after /\ after \in Seq(ItemsOf(k)) /\ Unique(after)
            /\ Reflects(Range(after), longer, Upto(j))
        BY <3>5, <3>7, <3>8, Zenon DEF after
      <4> QED
        BY <4>1, Zenon
    <3>10. A[j] = {c \in Seq(ItemsOf(k)) : Unique(c) /\ Reflects(Range(c), longer, Upto(j))}
      BY <1>5, <2>1, Zenon
    <3> QED
      BY <3>9, <3>10, Zenon
  <2>4. CASE ops[j].kind # k
    <3>1. Upto(j) = Upto(j - 1)
      <4>1. \A i : i \in 1..j <=> i \in 1..(j - 1) \/ i = j
        BY <1>1
      <4> QED
        BY <2>4, <4>1
    <3> HIDE DEF Upto
    <3>2. f[1..j] = b
      BY <1>2, <2>4
    <3> QED
      BY <1>5, <2>1, <2>2, <3>1, <3>2
  <2> QED
    BY <2>3, <2>4
<1>10. f[1..n] \in A[n]
  BY <1>1, <1>8, <1>9, FoldStays
<1>11. n \in 0..n
  BY <1>1
<1> HIDE DEF Upto
<1>12. Unique(f[1..n]) /\ Reflects(Range(f[1..n]), longer, Upto(n))
  BY <1>5, <1>10, <1>11
<1> QED
  BY <1>2, <1>6, <1>12, Zenon DEF longer

\* The inductive invariant: every list-shaped kind holds what the applied
\* messages leave, with one item for an id.
WordInv ==
  /\ PolicyInv
  /\ DOMAIN listEntries = ListKinds
  /\ \A k \in ListKinds :
       /\ listEntries[k] \in Seq(ItemsOf(k)) /\ Unique(listEntries[k])
       /\ Reflects(Range(listEntries[k]), applied, SpokenIn(applied, k))

LEMMA WordStarts == PolicyInit => WordInv
<1> SUFFICES ASSUME PolicyInit PROVE WordInv
  OBVIOUS
<1>1. PolicyInv
  BY PolicyInitInv
<1>2. applied = <<>> /\ DOMAIN <<>> = {}
  BY DEF PolicyInit
<1>3. DOMAIN listEntries = ListKinds /\ \A k \in ListKinds : listEntries[k] = <<>>
  BY DEF PolicyInit
<1>4. Range(<<>>) = {} /\ Unique(<<>>)
  BY <1>2 DEF Range, Unique
<1>5. ASSUME NEW k \in ListKinds
      PROVE  /\ listEntries[k] \in Seq(ItemsOf(k)) /\ Unique(listEntries[k])
             /\ Reflects(Range(listEntries[k]), applied, SpokenIn(applied, k))
  <2>1. <<>> \in Seq(ItemsOf(k))
    BY EmptySeq
  <2>2. SpokenIn(applied, k) = {}
    BY <1>2 DEF SpokenIn
  <2>3. Reflects({}, applied, {})
    BY DEF Reflects
  <2> QED
    BY <1>3, <1>4, <2>1, <2>2, <2>3
<1> QED
  BY <1>1, <1>3, <1>5 DEF WordInv

LEMMA WordStep == WordInv /\ [PolicyNext]_policyVars => WordInv'
<1> SUFFICES ASSUME WordInv, [PolicyNext]_policyVars PROVE WordInv'
  OBVIOUS
<1>1. PolicyInv'
  BY PolicyNextInv DEF WordInv
<1>2. CASE UNCHANGED policyVars
  BY <1>1, <1>2 DEF WordInv, policyVars
<1>3. ASSUME NEW m \in PolicyMessages, Apply(m) PROVE WordInv'
  <2>1. applied' = Append(applied, m) /\ ValidateOps(m)
    BY <1>3 DEF Apply, Accepts
  <2>2. applied \in Seq(PolicyMessages)
    BY DEF WordInv, PolicyInv
  <2>3. listEntries' = [k \in ListKinds |-> AfterOps(k, listEntries[k], m.operations)]
    BY <1>3, Zenon DEF Apply, ApplyOps, AfterOps
  <2>4. DOMAIN listEntries' = ListKinds
    BY <2>3
  <2>5. ASSUME NEW k \in ListKinds
        PROVE  /\ listEntries'[k] \in Seq(ItemsOf(k)) /\ Unique(listEntries'[k])
               /\ Reflects(Range(listEntries'[k]), applied', SpokenIn(applied', k))
    <3>1. /\ listEntries[k] \in Seq(ItemsOf(k)) /\ Unique(listEntries[k])
          /\ Reflects(Range(listEntries[k]), applied, SpokenIn(applied, k))
      BY DEF WordInv
    <3>2. listEntries'[k] = AfterOps(k, listEntries[k], m.operations)
      BY <2>3
    <3>3. AfterOps(k, listEntries[k], m.operations) \in Seq(ItemsOf(k))
      BY <3>1, OperationsKept
    <3> DEFINE new == AfterOps(k, listEntries[k], m.operations)
    <3>4. Unique(new) /\ Reflects(Range(new), Append(applied, m), SpokenIn(Append(applied, m), k))
      BY <2>1, <2>2, <3>1, MessageReflected
    <3> HIDE DEF new
    <3>5. listEntries'[k] = new /\ new \in Seq(ItemsOf(k))
      BY <3>2, <3>3 DEF new
    <3> QED
      BY <2>1, <3>4, <3>5, Zenon
  <2> QED
    BY <1>1, <2>4, <2>5, Zenon DEF WordInv, Unique, Reflects, SpokenIn, LastIn, Decided, IdIn, OpIn
<1> QED
  BY <1>2, <1>3 DEF PolicyNext

LEMMA WordIsLast == WordInv => LastWord
<1> SUFFICES ASSUME WordInv, NEW k \in ListKinds
             PROVE
    LET listed(id) == {i \in DOMAIN listEntries[k] : listEntries[k][i].id = id} IN
    /\ \A p \in Spoken(k) :
         LET op == OpAt(p)
             id == EntryIdFor(op)
             last == \A q \in Spoken(k) : EntryIdFor(OpAt(q)) = id => NotAfter(q, p)
         IN id # "" /\ last =>
              /\ op.op = "remove" => listed(id) = {}
              /\ op.op # "remove" =>
                   \E i \in listed(id) : listed(id) = {i} /\ listEntries[k][i].entry = op.entry
    /\ \A i \in DOMAIN listEntries[k] :
         listEntries[k][i].id \in {EntryIdFor(OpAt(p)) : p \in Spoken(k)} \ {""}
  BY Zenon DEF LastWord
<1> DEFINE bucket == listEntries[k]
           S == SpokenIn(applied, k)
           listed(id) == {i \in DOMAIN bucket : bucket[i].id = id}
<1>1. Unique(bucket) /\ Reflects(Range(bucket), applied, S)
  BY DEF WordInv
<1>2. Spoken(k) = S /\ \A p : OpAt(p) = OpIn(applied, p) /\ EntryIdFor(OpAt(p)) = IdIn(applied, p)
  BY Zenon DEF Spoken, SpokenIn, OpAt, OpIn, IdIn
<1> HIDE DEF bucket, S
<1>3. \A y : y \in Range(bucket) <=> \E i \in DOMAIN bucket : y = bucket[i]
  BY DEF Range
<1>4. ASSUME NEW p \in S, IdIn(applied, p) # "", LastIn(applied, S, p)
      PROVE  /\ OpIn(applied, p).op = "remove" => listed(IdIn(applied, p)) = {}
             /\ OpIn(applied, p).op # "remove" =>
                  \E i \in listed(IdIn(applied, p)) :
                    listed(IdIn(applied, p)) = {i} /\ bucket[i].entry = OpIn(applied, p).entry
  <2> DEFINE id == IdIn(applied, p)
  <2>1. Decided(Range(bucket), applied, p)
    BY <1>1, <1>4, Zenon DEF Reflects
  <2>2. ASSUME OpIn(applied, p).op = "remove" PROVE listed(id) = {}
    <3>1. \A y \in Range(bucket) : y.id # id
      BY <2>1, <2>2, Zenon DEF Decided
    <3> HIDE DEF id
    <3> QED
      BY <1>3, <3>1
  <2>3. ASSUME OpIn(applied, p).op # "remove"
        PROVE  \E i \in listed(id) : listed(id) = {i} /\ bucket[i].entry = OpIn(applied, p).entry
    <3>1. PICK y \in Range(bucket) : y.id = id /\ y.entry = OpIn(applied, p).entry
      BY <2>1, <2>3, Zenon DEF Decided
    <3>2. PICK i \in DOMAIN bucket : y = bucket[i]
      BY <1>3
    <3> HIDE DEF id
    <3>3. i \in listed(id) /\ \A j \in listed(id) : j = i
      BY <1>1, <3>1, <3>2 DEF Unique
    <3>4. listed(id) = {i}
      BY <3>3
    <3> QED
      BY <3>1, <3>2, <3>3, <3>4
  <2> QED
    BY <2>2, <2>3
<1>5. ASSUME NEW i \in DOMAIN bucket
      PROVE  bucket[i].id # "" /\ \E p \in S : bucket[i].id = IdIn(applied, p)
  <2>1. bucket[i] \in Range(bucket)
    BY <1>3
  <2> QED
    BY <1>1, <2>1, Zenon DEF Reflects
<1>6. ASSUME NEW p \in Spoken(k), EntryIdFor(OpAt(p)) # "",
             \A q \in Spoken(k) : EntryIdFor(OpAt(q)) = EntryIdFor(OpAt(p)) => NotAfter(q, p)
      PROVE  /\ OpAt(p).op = "remove" => listed(EntryIdFor(OpAt(p))) = {}
             /\ OpAt(p).op # "remove" =>
                  \E i \in listed(EntryIdFor(OpAt(p))) :
                    listed(EntryIdFor(OpAt(p))) = {i} /\ bucket[i].entry = OpAt(p).entry
  <2>1. p \in S /\ IdIn(applied, p) # "" /\ LastIn(applied, S, p)
    BY <1>2, <1>6, Zenon DEF LastIn
  <2> HIDE DEF listed
  <2> QED
    BY <1>2, <1>4, <2>1
<1>7. \A i \in DOMAIN bucket : bucket[i].id \in {EntryIdFor(OpAt(p)) : p \in Spoken(k)} \ {""}
  BY <1>2, <1>5
<1> QED
  BY <1>6, <1>7, Zenon DEF bucket

\* apply: the last applied operation on an id decides what is listed, for the
\* policy state on its own.
THEOREM PolicyLastWord == PolicySpec => []LastWord
<1> QED
  BY WordStarts, WordStep, WordIsLast, PTL DEF PolicySpec

\* The same in the home server, where every other step leaves the state alone.
THEOREM LastWordHolds == Spec => []LastWord
<1> QED
  BY PolicyLastWord, PipelinePolicy, PTL
=============================================================================
