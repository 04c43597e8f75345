----------------------------- MODULE RateLimits -----------------------------
(***************************************************************************)
(* The token bucket of rate_limiter.py under the policies of               *)
(* rate_limit_policy.py.  The script runs inside Redis, on its clock, so   *)
(* the requests of a subject are one sequence: arrivals, each with the     *)
(* seconds since the one before and with how Redis answers.                *)
(*                                                                         *)
(* A token is counted in parts of 1/window, which are what a second of the *)
(* refill brings amount of; times are seconds.                             *)
(***************************************************************************)
EXTENDS Integers, Sequences, FiniteSets, FiniteSetsExt

Policy(capacity, amount, window) == [capacity |-> capacity, amount |-> amount, window |-> window]

Registry ==
  [anonymous_auth           |-> Policy(5, 10, 300),
   oauth_connect_callback   |-> Policy(5, 20, 600),
   demo_start               |-> Policy(2, 10, 3600),
   authenticated_read       |-> Policy(60, 300, 60),
   privacy_audit_read       |-> Policy(30, 120, 60),
   provider_sync            |-> Policy(2, 6, 900),
   brief_generate           |-> Policy(3, 12, 3600),
   signal_extraction        |-> Policy(3, 12, 3600),
   preference_memory_write  |-> Policy(10, 60, 3600),
   proposal_mutation        |-> Policy(10, 60, 60),
   proposal_approval        |-> Policy(5, 30, 600),
   external_execution       |-> Policy(2, 10, 600),
   deletion_preview         |-> Policy(2, 10, 3600),
   deletion_confirm_cancel  |-> Policy(1, 5, 3600),
   account_deletion_preview |-> Policy(1, 3, 86400),
   account_deletion_confirm |-> Policy(1, 3, 86400)]

\* parse_policy_overrides: the fields given replace those of the policy, None
\* when one is not a positive integer.
OverriddenBy(policy, fields) ==
  IF \E f \in DOMAIN fields : fields[f] <= 0 THEN [refused |-> TRUE]
  ELSE [f \in DOMAIN policy |-> IF f \in DOMAIN fields THEN fields[f] ELSE policy[f]]

\* effective_policy
Effective(code, overrides) ==
  IF code \in DOMAIN overrides THEN OverriddenBy(Registry[code], overrides[code])
  ELSE Registry[code]

\* bucket_ttl_seconds
BucketTTL(p) == Max({60, Min({7 * 24 * 60 * 60, 2 * p.window})})

\* The policy that confirm_deletion_operation charges.
ConfirmPolicy(operationType) ==
  IF operationType = "account_deletion" THEN "account_deletion_confirm"
  ELSE "deletion_confirm_cancel"

-----------------------------------------------------------------------------
(* The script.  NoBucket is a key that does not exist, or has expired.     *)

NoBucket == [tokens |-> -1, ts |-> 0]

Found(p, bucket, now) ==
  IF bucket = NoBucket \/ now >= bucket.ts + BucketTTL(p)
    THEN [tokens |-> p.capacity * p.window, ts |-> now] ELSE bucket

\* Mutant of Refilled: a bucket that was not full keeps what is above it.
RefilledAbove(p, bucket, now) == bucket.tokens + Max({0, now - bucket.ts}) * p.amount
Refilled(p, bucket, now) ==
  Min({p.capacity * p.window, bucket.tokens + Max({0, now - bucket.ts}) * p.amount})

CeilDiv(a, b) == (a + b - 1) \div b

\* The script and the reading of its result: the wait is cut at the window.
Consumed(p, bucket, now) ==
  LET tokens == Refilled(p, Found(p, bucket, now), now)
      allowed == tokens >= p.window
      left == IF allowed THEN tokens - p.window ELSE tokens
  IN [allowed |-> allowed,
      bucket |-> [tokens |-> left, ts |-> now],
      retry |-> IF allowed THEN 0 ELSE Min({CeilDiv(p.window - left, p.amount), p.window})]

\* RateLimiter.check: Redis answers, is unreachable, or runs the script and
\* answers too late.  What cannot be decided is allowed.
Check(p, bucket, now, redis) ==
  LET run == Consumed(p, bucket, now)
  IN IF redis = "answers" THEN [decision |-> [allowed |-> run.allowed, retry |-> run.retry,
                                              degraded |-> FALSE],
                                bucket |-> run.bucket]
     ELSE [decision |-> [allowed |-> TRUE, retry |-> 0, degraded |-> TRUE],
           bucket |-> IF redis = "late" THEN run.bucket ELSE bucket]

\* enforce_rate_limit for one request after the other: what each was told, the
\* time, and the bucket behind it.
Served(p, before, arrival) ==
  LET now == before.at + arrival.gap
      checked == Check(p, before.bucket, now, arrival.redis)
  IN [at |-> now, bucket |-> checked.bucket, decision |-> checked.decision]
Enforced(p, arrivals) ==
  LET told[i \in 0..Len(arrivals)] ==
        IF i = 0 THEN [at |-> 0, bucket |-> NoBucket] ELSE Served(p, told[i - 1], arrivals[i])
  IN [i \in DOMAIN arrivals |-> told[i]]
=============================================================================
