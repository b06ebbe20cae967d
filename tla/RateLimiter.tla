---------------------------- MODULE RateLimiter ----------------------------
(***************************************************************************)
(* InMemoryTokenBucketRateLimiter (security/rate_limiter.py) as the        *)
(* rate-limit dependencies (api/dependencies.py) use it: a scope that      *)
(* allows Capacity requests per Period checks a bucket of that capacity    *)
(* that refills at Capacity / Period.                                      *)
(*                                                                         *)
(* check holds the one lock from its first line to its last and never      *)
(* awaits inside, so it is one action.  Time is counted in ticks and a     *)
(* token is worth Period units, which makes the code's fractions whole     *)
(* numbers: a tick brings Capacity units.  The clock is datetime.now, not  *)
(* a monotonic one: it may be set back.                                    *)
(***************************************************************************)
EXTENDS Integers, Sequences

CONSTANTS
  Keys,        \* bucket keys, e.g. "query:user:42"
  Capacity,    \* per key: requests allowed per period
  Period,      \* per key: ticks in a period (a minute, an hour)
  Times,       \* what the clock may read
  MaxAllowed   \* bound: requests let through per key

ASSUME RateAssumption ==
  /\ Capacity \in [Keys -> Nat \ {0}]
  /\ Period \in [Keys -> Nat \ {0}]
  /\ Times \subseteq Nat
  /\ MaxAllowed \in Nat

VARIABLES
  now,           \* self._clock()
  known,         \* the keys of self._buckets
  tokens,        \* bucket.tokens, in units
  last_refill,   \* bucket.last_refill
  log,           \* history: last_refill at each request that was let through
  promise,       \* history: when the last refusal said to come back, or -1
  setback        \* history: the clock has been set back

rateVars == <<now, known, tokens, last_refill, log, promise, setback>>

Full(k) == Capacity[k] * Period[k]

RateInit ==
  /\ now \in Times
  /\ known = {}
  /\ tokens = [k \in Keys |-> 0]
  /\ last_refill = [k \in Keys |-> 0]
  /\ log = [k \in Keys |-> <<>>]
  /\ promise = [k \in Keys |-> -1]
  /\ setback = FALSE

\* datetime.now(UTC) may read anything at the next call.
Clock ==
  /\ now' \in Times
  /\ setback' = IF now' < now THEN TRUE ELSE setback
  /\ UNCHANGED <<known, tokens, last_refill, log, promise>>

\* The bucket as check finds it after creating or refilling it.
Elapsed(k) == now - last_refill[k]

Refilled(k) ==
  IF k \notin known THEN Full(k)
  ELSE IF Elapsed(k) <= 0 THEN tokens[k]
  ELSE IF tokens[k] + Elapsed(k) * Capacity[k] < Full(k)
       THEN tokens[k] + Elapsed(k) * Capacity[k]
       ELSE Full(k)

\* Mutant: last_refill stays where it was, and the same time refills twice.
RefilledAtCreation(k) == IF k \in known THEN last_refill[k] ELSE now

RefilledAt(k) == IF k \in known /\ Elapsed(k) <= 0 THEN last_refill[k] ELSE now

\* Mutant: rounded down.
RetryAfterRoundedDown(k, have) ==
  LET ticks == (Period[k] - have) \div Capacity[k]
  IN  IF ticks < 1 THEN 1 ELSE ticks

\* Retry-After: the missing part over the refill rate, rounded up to a whole
\* tick and at least one (api/exception_handlers.py).
RetryAfter(k, have) ==
  LET missing == Period[k] - have
      ticks == (missing + Capacity[k] - 1) \div Capacity[k]
  IN  IF ticks < 1 THEN 1 ELSE ticks

Check(k) ==
  /\ Len(log[k]) < MaxAllowed
  /\ known' = known \cup {k}
  /\ last_refill' = [last_refill EXCEPT ![k] = RefilledAt(k)]
  /\ IF Refilled(k) >= Period[k]
     THEN /\ tokens' = [tokens EXCEPT ![k] = Refilled(k) - Period[k]]
          /\ log' = [log EXCEPT ![k] = Append(@, RefilledAt(k))]
          /\ promise' = [promise EXCEPT ![k] = -1]
     ELSE /\ tokens' = [tokens EXCEPT ![k] = Refilled(k)]
          /\ promise' = [promise EXCEPT ![k] = now + RetryAfter(k, Refilled(k))]
          /\ log' = log
  /\ UNCHANGED <<now, setback>>

RateNext == Clock \/ \E k \in Keys : Check(k)

RateSpec == RateInit /\ [][RateNext]_rateVars
-----------------------------------------------------------------------------
\* A bucket never holds less than nothing or more than its capacity.
RateTypeOK ==
  /\ now \in Times
  /\ known \subseteq Keys
  /\ tokens \in [Keys -> Nat]
  /\ \A k \in Keys : tokens[k] <= Full(k)
  /\ last_refill \in [Keys -> Nat]
  /\ log \in [Keys -> Seq(Nat)]
  /\ promise \in [Keys -> Int]
  /\ setback \in BOOLEAN

\* The limit itself, over every window and not only over aligned ones: from
\* the i-th to the j-th request let through, a key admits at most one full
\* burst plus what the elapsed time refills, even if the clock is set back.
WindowBound ==
  \A k \in Keys : \A i, j \in DOMAIN log[k] :
    i <= j => (j - i + 1) * Period[k] <= Full(k) + Capacity[k] * (log[k][j] - log[k][i])

\* Retry-After is "the actual time until that bucket can accept another": a
\* caller that comes back then, if nobody else used the key and the clock was
\* not set back, finds a token.
RetryAfterHonest ==
  ~ setback => \A k \in Keys :
    promise[k] # -1 => tokens[k] + Capacity[k] * (promise[k] - last_refill[k]) >= Period[k]
=============================================================================
