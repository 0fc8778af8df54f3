---------------------------- MODULE Transparency ----------------------------
(***************************************************************************)
(* The transparency log of a domain (transparency/log.ts, sign.ts) and the *)
(* auditors that follow it. The log is in memory: a restart empties it,    *)
(* and what it says afterwards need not extend what it said before. Tree   *)
(* heads reach auditors late and in any order.                             *)
(***************************************************************************)
EXTENDS SignedDoc, FiniteSets, SequencesExt, Integers, Sequences

(* The Merkle tree of the transparency log (transparency/merkle.ts).       *)
(* SHA-256 is ideal: a hash is the tuple of what was hashed, so two hashes *)
(* are equal exactly when their inputs are.                                *)

HashLeaf(entry) == <<0, entry>>
HashInterior(left, right) == <<1, left, right>>
EmptyRoot == <<>>            \* the all-zero hash

Odd(n) == n % 2 = 1

LargestPowerOfTwoLessThan(n) ==
  LET from[k \in 1..n] == IF 2 * k < n THEN from[2 * k] ELSE k
  IN  IF n <= 1 THEN 0 ELSE from[1]

\* Where a slice of n leaves can begin: it has the leaves lo + 1 .. lo + n.
Slices(leaves, n) == 0..(Len(leaves) - n)

\* subtreeRoot() of every slice.
SubtreeRoot(leaves) ==
  LET root[n \in 0..Len(leaves)] ==
        [lo \in Slices(leaves, n) |->
           CASE n = 0 -> EmptyRoot
             [] n = 1 -> leaves[lo + 1]
             [] OTHER -> LET k == LargestPowerOfTwoLessThan(n)
                         IN  HashInterior(root[k][lo], root[n - k][lo + k])]
  IN  root

\* PATH(m, leaves), m counted from 0; in a slice, m - lo is the code's m.
AuditPath(m, leaves) ==
  LET root == SubtreeRoot(leaves)
      path[n \in 0..Len(leaves)] ==
        [lo \in Slices(leaves, n) |->
           LET k == LargestPowerOfTwoLessThan(n)
           IN  CASE n <= 1 -> <<>>
                 [] n > 1 /\ m < lo + k -> Append(path[k][lo], root[n - k][lo + k])
                 [] OTHER -> Append(path[n - k][lo + k], root[k][lo])]
  IN  path[Len(leaves)][0]

\* SUBPROOF(m, leaves, TRUE), for the slices that the m first leaves end in. b is
\* TRUE until the recursion goes right, so it says that the slice is the first.
Subproof(m, leaves) ==
  LET root == SubtreeRoot(leaves)
      proof[n \in 0..Len(leaves)] ==
        [lo \in {first \in Slices(leaves, n) : m \in (first + 1)..(first + n)} |->
           LET k == LargestPowerOfTwoLessThan(n)
           IN  CASE m = lo + n -> IF lo = 0 THEN <<>> ELSE <<root[n][lo]>>
                 [] m < lo + n /\ m <= lo + k -> Append(proof[k][lo], root[n - k][lo + k])
                 [] OTHER -> Append(proof[n - k][lo + k], root[k][lo])]
  IN  proof[Len(leaves)][0]

\* A mutant: the inner while loop runs once.
SkipZerosOnce(fn, sn) == [fn |-> fn \div 2, sn |-> sn \div 2]

\* The position after a left sibling was folded in: the inner while loop.
SkipZeros(fn, sn) ==
  LET skip[x \in 0..fn] ==
        [y \in 0..sn |-> IF x # 0 /\ ~Odd(x) THEN skip[x \div 2][y \div 2]
                         ELSE [fn |-> x \div 2, sn |-> y \div 2]]
  IN  skip[fn][sn]

\* A walk that ran out of siblings, or left some over, throws.
Thrown == [fn |-> 0, sn |-> -1, first |-> <<"thrown">>, second |-> <<"thrown">>]

\* A turn of the loop of computeRootsFromConsistency(), with the next sibling.
Turn(walk, sibling) ==
  LET up == SkipZeros(walk.fn, walk.sn)
  IN  CASE walk.sn <= 0 -> Thrown
        [] walk.sn > 0 /\ (Odd(walk.fn) \/ walk.fn = walk.sn) ->
             [fn |-> up.fn, sn |-> up.sn,
              first |-> HashInterior(sibling, walk.first), second |-> HashInterior(sibling, walk.second)]
        [] OTHER ->
             [fn |-> walk.fn \div 2, sn |-> walk.sn \div 2,
              first |-> walk.first, second |-> HashInterior(walk.second, sibling)]

\* computeRootsFromConsistency() after its first steps, from the hash it has,
\* and computeRootFromInclusion(): the two loops differ only in that inclusion
\* has no first root.
Walk(fn, sn, hash, path) ==
  LET walk[i \in 0..Len(path)] ==
        IF i = 0 THEN [fn |-> fn, sn |-> sn, first |-> hash, second |-> hash]
        ELSE Turn(walk[i - 1], path[i])
  IN  IF walk[Len(path)].sn = 0 THEN walk[Len(path)] ELSE Thrown

VerifyInclusionProof(proof, root) ==
  /\ proof.leaf_index \in 0..(proof.log_size - 1)
  /\ Walk(proof.leaf_index, proof.log_size - 1, proof.leaf_hash, proof.path).second = root

\* The leading loop of computeRootsFromConsistency().
DropOnes(fn, sn) ==
  LET drop[x \in 0..fn] ==
        [y \in 0..sn |-> IF Odd(x) THEN drop[x \div 2][y \div 2] ELSE [fn |-> x, sn |-> y]]
  IN  drop[fn][sn]

ComputeRootsFromConsistency(firstSize, secondSize, firstRoot, path) ==
  LET start == DropOnes(firstSize - 1, secondSize - 1)
  IN  CASE start.fn = 0 -> Walk(0, start.sn, firstRoot, path)
        [] start.fn # 0 /\ path = <<>> -> Thrown
        [] OTHER -> Walk(start.fn, start.sn, Head(path), Tail(path))

\* A mutant: the second root is taken from the proof alone.
VerifyConsistencyOfSecond(proof, firstRoot, secondRoot) ==
  /\ proof.from_size <= proof.to_size
  /\ CASE proof.from_size = proof.to_size -> proof.path = <<>>
       [] proof.from_size = 0 -> proof.path = <<>>
       [] OTHER -> ComputeRootsFromConsistency(proof.from_size, proof.to_size, firstRoot, proof.path).second = secondRoot

VerifyConsistencyProof(proof, firstRoot, secondRoot) ==
  /\ proof.from_size <= proof.to_size
  /\ CASE proof.from_size = proof.to_size -> proof.path = <<>> /\ firstRoot = secondRoot
       [] proof.from_size = 0 /\ proof.to_size > 0 -> proof.path = <<>>
       [] OTHER -> LET roots == ComputeRootsFromConsistency(proof.from_size, proof.to_size, firstRoot, proof.path)
                   IN  roots.first = firstRoot /\ roots.second = secondRoot

-----------------------------------------------------------------------------

CONSTANTS
  LogSubmissions,         \* sequence: the entries submitted before the first restart, after it, ...
  Auditors,
  LogKey,              \* the domain's signing key
  STHFreshness,        \* MaxSTHFreshnessMs, in ticks
  MaxHeads,            \* bound: tree heads issued
  MaxLogTime           \* bound: the log's clock

VARIABLES
  log,             \* the entries
  heads,           \* the signed tree heads issued, each with its entries (a history)
  logTime,
  logRestarts,
  accepted,        \* auditor -> the place in heads of the head it trusts, 0 if none
  included         \* history: auditor -> the (head, index, entry) it was shown to be in the log

logVars == <<log, heads, logTime, logRestarts, accepted, included>>

None == ""

ValidateLogEntry(e) ==
  \/ e.event = "publish" /\ e.supersedes = None
  \/ e.event = "rotate" /\ e.supersedes # None
  \/ e.event = "revoke" /\ e.revoked_at # None

Leaves(entries) == [i \in DOMAIN entries |-> HashLeaf(entries[i])]
Root(entries) == SubtreeRoot(Leaves(entries))[Len(entries)][0]

\* append(): nothing changes when the entry does not validate.
AppendEntry(e) ==
  /\ ValidateLogEntry(e)
  /\ log' = Append(log, e)
  /\ UNCHANGED <<heads, logTime, logRestarts, accepted, included>>

SignSTH(sth) == SignSignedDoc(sth, LogKey, "SEMP-TRANSPARENCY-STH:")
VerifySTH(sth) == sth.log_size >= 0 /\ VerifySignedDoc(sth, LogKey, "SEMP-TRANSPARENCY-STH:")
CheckSTHFresh(sth) == logTime - sth.timestamp <= STHFreshness

IssueSTH ==
  /\ Len(heads) < MaxHeads
  /\ heads' = Append(heads,
       [entries |-> log,
        sth |-> SignSTH([log_size |-> Len(log), root_hash |-> Root(log), timestamp |-> logTime,
                         signature |-> NoSignature])])
  /\ UNCHANGED <<log, logTime, logRestarts, accepted, included>>

\* inclusionProof() and consistencyProof() throw outside these sizes.
CanProveInclusion(index, size) == size > 0 /\ size <= Len(log) /\ index \in 0..(size - 1)
InclusionProof(index, size) ==
  LET leaves == Leaves(SubSeq(log, 1, size))
  IN  [log_size |-> size, leaf_index |-> index, leaf_hash |-> leaves[index + 1], path |-> AuditPath(index, leaves)]

CanProveConsistency(first, second) == first > 0 /\ first <= second /\ second <= Len(log)
ConsistencyProof(first, second) ==
  [from_size |-> first, to_size |-> second, path |-> Subproof(first, Leaves(SubSeq(log, 1, second)))]

\* An auditor moves to a head that is signed and fresh, once the log, as it is
\* by then, proved it consistent with the head it trusts.
Audit(a, h) ==
  LET new == heads[h].sth
      old == heads[accepted[a]].sth
  IN  /\ h # accepted[a]
      /\ VerifySTH(new) /\ CheckSTHFresh(new)
      /\ accepted[a] # 0 =>
           \/ old.log_size = 0
           \/ /\ CanProveConsistency(old.log_size, new.log_size)
              /\ VerifyConsistencyProof(ConsistencyProof(old.log_size, new.log_size), old.root_hash, new.root_hash)
      /\ accepted' = [accepted EXCEPT ![a] = h]
      /\ UNCHANGED <<log, heads, logTime, logRestarts, included>>

\* It asks for a proof that an entry is under the head it trusts.
CheckIncluded(a, index) ==
  LET sth == heads[accepted[a]].sth
  IN  /\ accepted[a] # 0
      /\ CanProveInclusion(index, sth.log_size)
      /\ VerifyInclusionProof(InclusionProof(index, sth.log_size), sth.root_hash)
      /\ included' = [included EXCEPT ![a] = <<accepted[a], index, log[index + 1]>>]
      /\ UNCHANGED <<log, heads, logTime, logRestarts, accepted>>

RestartLog ==
  /\ logRestarts + 1 < Len(LogSubmissions)
  /\ log # <<>>
  /\ log' = <<>>
  /\ logRestarts' = logRestarts + 1
  /\ UNCHANGED <<heads, logTime, accepted, included>>

LogTick ==
  /\ logTime < MaxLogTime
  /\ logTime' = logTime + 1
  /\ UNCHANGED <<log, heads, logRestarts, accepted, included>>

LogInit ==
  /\ log = <<>> /\ heads = <<>> /\ logTime = 0 /\ logRestarts = 0
  /\ accepted = [a \in Auditors |-> 0]
  /\ included = [a \in Auditors |-> <<>>]

LogNext ==
  \/ LET submitted == LogSubmissions[logRestarts + 1]
     IN  Len(log) < Len(submitted) /\ AppendEntry(submitted[Len(log) + 1])
  \/ IssueSTH \/ RestartLog \/ LogTick
  \/ \E a \in Auditors, h \in DOMAIN heads : Audit(a, h)
  \/ \E a \in Auditors, i \in 0..(Len(log) - 1) : CheckIncluded(a, i)

LogSpec == LogInit /\ [][LogNext]_logVars

-----------------------------------------------------------------------------

\* While the log has not restarted, every proof it gives verifies, for every
\* pair of sizes and every index: the walks of the verifier undo the
\* recursions of the prover.
ProofsVerify ==
  \A n \in 1..Len(log) :
    LET root(k) == Root(SubSeq(log, 1, k))
    IN  /\ \A m \in 1..n : VerifyConsistencyProof(ConsistencyProof(m, n), root(m), root(n))
        /\ \A i \in 0..(n - 1) : VerifyInclusionProof(InclusionProof(i, n), root(n))

\* Whatever the log forgot and was told since, the entries under the head an
\* auditor trusts only grow, and an entry it was shown is under that head.
AuditorsSeeOneLog ==
  [][\A a \in Auditors :
       /\ accepted[a] # 0 => IsPrefix(heads[accepted[a]].entries, heads[accepted'[a]].entries)
       /\ included'[a] # <<>> =>
            heads'[included'[a][1]].entries[included'[a][2] + 1] = included'[a][3]]_logVars
=============================================================================
