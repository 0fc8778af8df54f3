------------------------------- MODULE Retry -------------------------------
(***************************************************************************)
(* The retry schedule of the sending server: src/src/delivery/retry.ts.    *)
(*                                                                         *)
(* Time is counted in units of 30 seconds, the smallest interval the       *)
(* schedule can realise (MinJitterFloorMs), so the spec minima keep their  *)
(* ratios. Rounding to whole units plays the role of Math.floor and of the *)
(* isoSecond truncation. Jitter is a choice over every value the random    *)
(* source can produce.                                                     *)
(***************************************************************************)
EXTENDS Integers

CONSTANTS
  CfgInitial,      \* RetryConfig.initialIntervalMs; 0 = not set
  CfgMultiplier,   \* RetryConfig.multiplier; 0 = not set
  CfgMaxInterval,  \* RetryConfig.maxIntervalMs; 0 = not set
  CfgJitterPct,    \* RetryConfig.jitterFraction in percent; 0 = not set
  CfgHorizon       \* SchedulerConfig.maxRetryHorizonMs, as the operator set it

ASSUME RetryConfigAssumption ==
  /\ CfgInitial \in Int
  /\ CfgMultiplier \in Int
  /\ CfgMaxInterval \in Int
  /\ CfgJitterPct \in Int
  /\ CfgHorizon \in Int

MinRetryInitialInterval == 2       \* 60 s
MinRetryMultiplier      == 2
MaxRetryInterval        == 720     \* 6 h
MinRetryJitterPct       == 10
MinJitterFloor          == 1       \* 30 s
DefaultMaxRetryHorizon  == 8640    \* 72 h
MaxRetryHorizonCap      == 20160   \* 7 days

MaxOf(a, b) == IF a >= b THEN a ELSE b
MinOf(a, b) == IF a <= b THEN a ELSE b

\* sanitizeRetry: the operator's values clamped to the spec's bounds.
EffInitial     == MaxOf(CfgInitial, MinRetryInitialInterval)
EffMultiplier  == MaxOf(CfgMultiplier, MinRetryMultiplier)
EffMaxInterval ==
  IF CfgMaxInterval <= 0 \/ CfgMaxInterval > MaxRetryInterval
  THEN MaxRetryInterval ELSE CfgMaxInterval
EffJitterPct   == MaxOf(CfgJitterPct, MinRetryJitterPct)

\* The loop of baseIntervalMs before its final clamp. Once clamped the loop
\* breaks; multiplying the clamped value again would clamp it again.
Backoff[a \in Nat] ==
  IF a = 0 THEN EffInitial
  ELSE MinOf(Backoff[a - 1] * EffMultiplier, EffMaxInterval)

BaseInterval(attempt) == MinOf(Backoff[attempt], EffMaxInterval)

\* jitterIntervalMs: base * m for a random m in [1 - j, 1 + j), floored.
JitterIntervals(base) ==
  {MaxOf(d, MinJitterFloor) :
     d \in ((base * (100 - EffJitterPct)) \div 100)
           .. ((base * (100 + EffJitterPct) - 1) \div 100)}

\* nextAttemptAt, over every outcome of the jitter.
NextAttemptTimes(previous, attempt) ==
  {previous + d : d \in JitterIntervals(BaseInterval(attempt))}

\* isRecoverableReason: unknown codes are not recoverable.
RecoverableReasons ==
  {"handshake_invalid", "handshake_expired", "no_session",
   "server_unavailable", "rate_limited", "server_at_capacity"}

IsRecoverableReason(reasonCode) == reasonCode \in RecoverableReasons

\* effectiveDeadline: the earlier of postmark.expires and queuedAt + horizon,
\* where horizon <= 0 means the default and the cap bounds it.
EffectiveHorizon ==
  MinOf(IF CfgHorizon <= 0 THEN DefaultMaxRetryHorizon ELSE CfgHorizon,
        MaxRetryHorizonCap)

EffectiveDeadline(postmarkExpires, queuedAt) ==
  MinOf(postmarkExpires, queuedAt + EffectiveHorizon)
=============================================================================
