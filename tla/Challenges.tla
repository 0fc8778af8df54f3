---------------------------- MODULE Challenges ----------------------------
(***************************************************************************)
(* Proof of work on first contact (reputation/pow.ts, handshake/pow.ts,    *)
(* handshake/first_contact.ts, and onChallenge of client_state.ts). The    *)
(* recipient's server issues a challenge bound to one envelope and records *)
(* it in its ledger; the client solves it while time passes; solutions are *)
(* presented late, again or with another envelope. SHA-256 is ideal: a     *)
(* solution is the challenge it was searched for and the zero bits found.  *)
(***************************************************************************)
EXTENDS Integers, Sequences, Functions, FiniteSets

CONSTANTS
  FirstContacts,      \* envelopes: [sender, recipient, postmark]
  Profiles,           \* sender -> [assessment, age in days]
  OperatorDemands,    \* difficulties an operator asks for besides the table's
  ChallengeTTL, SweepInterval,
  MaxChallenges, MaxRestarts, MaxPoWTime    \* bounds

ASSUME ChallengeAssumption ==
  /\ \A e \in FirstContacts : e = [sender |-> e.sender, recipient |-> e.recipient, postmark |-> e.postmark]
  /\ ChallengeTTL \in Nat /\ SweepInterval \in Nat
  /\ MaxChallenges \in Nat /\ MaxRestarts \in Nat /\ MaxPoWTime \in Nat

VARIABLES
  powClock,
  challenges,         \* the challenges issued, in order: a challenge's id is its place
  ledger,             \* id -> redeemed, for the entries the ledger has
  lastSweep,
  forgotten,          \* for each restart, the ids it lost
  solving,            \* the ids a client searches a solution for
  solutions,          \* the solutions found
  admitted            \* the admissions, in order

powVars == <<powClock, challenges, ledger, lastSweep, forgotten, solving, solutions, admitted>>

MaxPoWDifficulty == 28
DomainAgeGateDays == 30

DifficultyForAge(ageDays) == IF ageDays < DomainAgeGateDays THEN 20 ELSE 16
DifficultyForAssessment(a) ==
  CASE a = "suspicious" -> 22 [] a = "hostile" -> 26 [] OTHER -> 0

\* What the table of REPUTATION.md 8.3.2 asks of a sender; 0 is no challenge.
Difficulty(profile) ==
  IF profile.assessment = "" THEN DifficultyForAge(profile.age) ELSE DifficultyForAssessment(profile.assessment)

\* firstContactBindingHash(): the three fields between separators.
BindingHash(e) == <<"SEMP-FIRST-CONTACT-V1:", e.sender, e.recipient, e.postmark>>

\* verifyFirstContactBinding(): the end of the prefix is the envelope's hash.
VerifyFirstContactBinding(prefix, e) == prefix.binding = BindingHash(e)

\* verifyChallengeSolution(): the preimage has the prefix and the id.
VerifyChallengeSolution(c, id, solution) ==
  /\ c.difficulty \in 0..MaxPoWDifficulty
  /\ solution.id = id /\ solution.prefix = c.prefix
  /\ solution.zeros >= c.difficulty

Expired(id) == powClock >= challenges[id].expires

\* The sweep; maybeSweep() runs it at most once in an interval.
Swept(entries) == Restrict(entries, {id \in DOMAIN entries : ~Expired(id)})

-----------------------------------------------------------------------------

\* issueChallenge(), with computeFirstContactPrefix's prefix, and record(),
\* which ends in maybeSweep(). The new entry has not expired.
IssueChallenge(e, difficulty) ==
  LET id == Len(challenges) + 1
      sweeps == powClock - lastSweep >= SweepInterval
  IN  /\ id <= MaxChallenges
      /\ difficulty \in 1..256
      /\ challenges' = Append(challenges, [prefix |-> [random |-> id, binding |-> BindingHash(e)], for |-> e,
                                   difficulty |-> difficulty, expires |-> powClock + ChallengeTTL])
      /\ ledger' = [i \in DOMAIN (IF sweeps THEN Swept(ledger) ELSE ledger) \cup {id} |->
                      IF i = id THEN FALSE ELSE ledger[i]]
      /\ lastSweep' = IF sweeps THEN powClock ELSE lastSweep
      /\ UNCHANGED <<powClock, forgotten, solving, solutions, admitted>>

\* What the ledger's challenges have, and what the client wants.
PoWAlgorithm == "sha256"
ClientAlgorithm == "argon2id-pow"

\* onChallenge() refuses what is too hard or has expired, and starts solvePoW.
\* The message that carries the challenge is signed by the server and names an
\* algorithm: the client refuses the one of the challenge itself.
OnChallenge(id, algorithm) ==
  /\ algorithm = ClientAlgorithm
  /\ challenges[id].difficulty <= MaxPoWDifficulty
  /\ ~Expired(id)
  /\ solving' = solving \cup {id}
  /\ UNCHANGED <<powClock, challenges, ledger, lastSweep, forgotten, solutions, admitted>>

\* solvePoW() yields to the event loop while it counts, so any time may have
\* passed when it finds a nonce.
SolvePoW(id) ==
  /\ id \in solving
  /\ solving' = solving \ {id}
  /\ solutions' = solutions \cup {[id |-> id, prefix |-> challenges[id].prefix, zeros |-> challenges[id].difficulty]}
  /\ UNCHANGED <<powClock, challenges, ledger, lastSweep, forgotten, admitted>>

\* What a client has that stopped short of the bits it was asked for.
ShortSolutions ==
  {[id |-> id, prefix |-> challenges[id].prefix, zeros |-> challenges[id].difficulty - 1] : id \in DOMAIN challenges}

\* A mutant: redeem() does not mark the entry.
RedeemUnmarked(id) ==
  /\ id \in DOMAIN ledger /\ ~ledger[id] /\ ~Expired(id)
  /\ ledger' = ledger

\* redeem() marks the entry before the solution has been looked at.
Redeem(id) ==
  /\ id \in DOMAIN ledger /\ ~ledger[id] /\ ~Expired(id)
  /\ ledger' = [ledger EXCEPT ![id] = TRUE]

\* redeem() drops an entry it finds expired.
RedeemExpired(id) ==
  /\ id \in DOMAIN ledger /\ ~ledger[id] /\ Expired(id)
  /\ ledger' = Restrict(ledger, DOMAIN ledger \ {id})

\* The server gets a solution with an envelope, maybe another or again, maybe
\* short of the work: it redeems the challenge, then checks the binding and
\* the work.
Present(solution, e) ==
  LET c == challenges[solution.id]
      good == VerifyFirstContactBinding(c.prefix, e) /\ VerifyChallengeSolution(c, solution.id, solution)
  IN  /\ \/ /\ Redeem(solution.id)
            /\ admitted' = IF good
                 THEN Append(admitted, [id |-> solution.id, envelope |-> e, zeros |-> solution.zeros, at |-> powClock])
                 ELSE admitted
         \/ RedeemExpired(solution.id) /\ UNCHANGED admitted
      /\ UNCHANGED <<powClock, challenges, lastSweep, forgotten, solving, solutions>>

Sweep ==
  /\ ledger' = Swept(ledger)
  /\ lastSweep' = powClock
  /\ UNCHANGED <<powClock, challenges, forgotten, solving, solutions, admitted>>

\* The ledger is in memory.
LedgerRestarts ==
  /\ Len(forgotten) < MaxRestarts
  /\ forgotten' = Append(forgotten, DOMAIN ledger)
  /\ ledger' = <<>> /\ lastSweep' = 0
  /\ UNCHANGED <<powClock, challenges, solving, solutions, admitted>>

PoWTick ==
  /\ powClock < MaxPoWTime
  /\ powClock' = powClock + 1
  /\ UNCHANGED <<challenges, ledger, lastSweep, forgotten, solving, solutions, admitted>>

ChallengeInit ==
  /\ powClock = 0 /\ challenges = <<>> /\ ledger = <<>> /\ lastSweep = 0 /\ forgotten = <<>>
  /\ solving = {} /\ solutions = {} /\ admitted = <<>>

ChallengeNext ==
  \/ \E e \in FirstContacts : \E d \in {Difficulty(Profiles[e.sender])} \cup OperatorDemands : IssueChallenge(e, d)
  \/ \E id \in DOMAIN challenges :
       SolvePoW(id) \/ \E algorithm \in {PoWAlgorithm, ClientAlgorithm} : OnChallenge(id, algorithm)
  \/ \E s \in solutions \cup ShortSolutions, e \in FirstContacts : Present(s, e)
  \/ Sweep \/ LedgerRestarts \/ PoWTick

ChallengeSpec == ChallengeInit /\ [][ChallengeNext]_powVars

-----------------------------------------------------------------------------

\* ChallengeLedger and first_contact.ts: a challenge admits one envelope at
\* most, the one it was issued for, before it expires, for the work asked,
\* however often and with whatever envelope solutions are presented, across
\* sweeps and restarts; and a challenge that is not expired is in the ledger
\* until a restart, so that neither sweeps nor failed attempts with other
\* challenges cost a client its work.
WorkCountsOnce ==
  /\ \A i \in DOMAIN admitted :
       LET a == admitted[i] IN
       /\ a.envelope = challenges[a.id].for /\ a.at < challenges[a.id].expires
       /\ a.zeros >= challenges[a.id].difficulty /\ challenges[a.id].difficulty <= MaxPoWDifficulty
       /\ \A j \in DOMAIN admitted : admitted[j].id = a.id => j = i
  /\ \A id \in DOMAIN challenges :
       Expired(id) \/ id \in DOMAIN ledger \/ \E i \in DOMAIN forgotten : id \in forgotten[i]
=============================================================================
