----------------------------- MODULE RateLimiter -----------------------------
(***************************************************************************)
(* The token-bucket rate limiter: the Lua script and RateLimiter::check of *)
(* crates/api/src/ratelimit.rs and the middleware rate_limit_for of        *)
(* crates/api/src/lib.rs.  Several API nodes share the buckets in Redis.   *)
(* Each stamps a request with its own clock before it sends the script, so *)
(* stamps reach a bucket out of order and from clocks that disagree.       *)
(*                                                                         *)
(* Time is in milliseconds.  Tokens are counted in units: a token is `unit` *)
(* units and a millisecond refills `rate` of them, so a fractional refill  *)
(* needs no fractions (the script's floats are taken to be exact).         *)
(*                                                                         *)
(* History: admitted and passed, the tokens taken from a bucket and the    *)
(* requests a limiter let through on it; trail, the first and latest stamp *)
(* a bucket saw and how far its stamps have gone backwards altogether.     *)
(***************************************************************************)
EXTENDS Integers, Null

CONSTANTS Nodes, Requests, Buckets,
          Limits,       \* per bucket: cap and unit in units, rate in units per ms
          Offset,       \* how far a node's clock is ahead of Redis's
          Skew,         \* bound on Offset
          MaxDelay,     \* longest time from the stamp to the script's run
          NoRefillTtl,  \* the life of a bucket that does not refill: 60000
          WithLimiter,  \* the nodes that reached Redis when they booted
          FailOpen,     \* api_rate_limit_fail_open
          Second,       \* milliseconds in a second
          MaxTime, MaxChecks

Max2(a, b) == IF a >= b THEN a ELSE b
Min2(a, b) == IF a <= b THEN a ELSE b
CeilDiv(a, b) == (a + b - 1) \div b

ASSUME LimiterConstants ==
  /\ Limits \in [Buckets -> [cap : Nat, rate : Nat, unit : Nat]]
  /\ \A b \in Buckets : Limits[b].unit > 0 /\ Limits[b].unit <= Limits[b].cap
  /\ Skew \in Nat /\ Offset \in [Nodes -> 0 .. Skew]
  /\ MaxDelay \in Nat /\ Second \in Nat /\ Second > 0
  /\ NoRefillTtl \in Nat
  /\ WithLimiter \subseteq Nodes /\ FailOpen \in BOOLEAN
  /\ MaxTime \in Nat /\ MaxChecks \in Nat
  /\ NULL \notin [tokens : Nat, last : Nat, expires : Nat]
  /\ NULL \notin [first : Nat, last : Nat, back : Nat]

\* A script runs within the time the bucket takes to fill.
ASSUME SlackWithinFill ==
  \A b \in Buckets : Limits[b].rate * (MaxDelay + Skew) <= Limits[b].cap

\* The configuration's defaults per surface and tier, refill in tenths of a token
\* per second, and the default request timeout in seconds.
DefaultLimits ==
  [rest    |-> [free |-> <<30, 10>>, starter |-> <<300, 200>>, pro |-> <<3000, 2000>>],
   graphql |-> [free |-> <<10, 5>>, starter |-> <<100, 100>>, pro |-> <<1000, 1000>>]]

DefaultTimeout == 10

\* LimitParams::from_config.
LimitParams(surface, tier) ==
  [burst |-> DefaultLimits[surface][tier][1], refill |-> DefaultLimits[surface][tier][2]]

\* With synchronised clocks the defaults satisfy SlackWithinFill: no request lives
\* longer than its bucket takes to fill.
ASSUME DefaultsFillSlowly ==
  \A surface \in {"rest", "graphql"}, tier \in {"free", "starter", "pro"} :
     LET p == LimitParams(surface, tier) IN p.refill * DefaultTimeout <= 10 * p.burst

VARIABLES now, buckets, pending, decision, checks, admitted, passed, trail

limiterVars == <<now, buckets, pending, decision, checks, admitted, passed, trail>>

Cap(b) == Limits[b].cap
Rate(b) == Limits[b].rate
Unit(b) == Limits[b].unit

Refills(b) == Rate(b) > 0

\* mutant: the burst taken for the time to fill
BucketTtl_Burst(b) == IF Refills(b) THEN CeilDiv(Cap(b), Unit(b)) ELSE NoRefillTtl

\* PEXPIRE: twice the time to fill, or a minute.
BucketTtl(b) == IF Refills(b) THEN CeilDiv(2 * Cap(b), Rate(b)) ELSE NoRefillTtl

Bucket(tokens, last, expires) == [tokens |-> tokens, last |-> last, expires |-> expires]

Trail(first, last, back) == [first |-> first, last |-> last, back |-> back]

\* Decision, of which the middleware makes the headers, and when it was made
\* (history).
Decision(allowed, remaining, retry, at) ==
  [allowed |-> allowed, remaining |-> remaining, retryAfter |-> retry, at |-> at]

LimiterInit ==
  /\ now = 0
  /\ buckets = [b \in Buckets |-> NULL]
  /\ pending = [r \in Requests |-> NULL]
  /\ decision = [b \in Buckets |-> NULL]
  /\ checks = 0
  /\ admitted = [b \in Buckets |-> 0]
  /\ passed = [b \in Buckets |-> 0]
  /\ trail = [b \in Buckets |-> NULL]

\* The refill of an elapsed time that may be negative.
Refilled(b, tokens, elapsed) == Min2(Cap(b), tokens + Rate(b) * Max2(0, elapsed))

\* The script's tokens before it takes one: full where there is no bucket.
TokensAt(b, stamp) ==
  IF buckets[b] = NULL THEN Cap(b)
  ELSE Refilled(b, buckets[b].tokens, stamp - buckets[b].last)

\* mutant: truncated where the script and check round up
RetryAfter_Truncated(b, tokens) ==
  IF Refills(b) THEN ((Unit(b) - tokens) \div Rate(b)) \div Second ELSE 1

\* The milliseconds until a token is there, then check's round-up to seconds; a
\* second where there never will be one.
RetryAfter(b, tokens) ==
  IF Refills(b) THEN CeilDiv(CeilDiv(Unit(b) - tokens, Rate(b)), Second) ELSE 1

\* The script: refill, take a token if there is one, write back, set the expiry.
RunBucket(b, stamp) ==
  LET tokens == TokensAt(b, stamp)
      allowed == tokens >= Unit(b)
      left == IF allowed THEN tokens - Unit(b) ELSE tokens
  IN /\ buckets' = [buckets EXCEPT ![b] = Bucket(left, stamp, now + BucketTtl(b))]
     /\ decision' = [decision EXCEPT ![b] =
          Decision(allowed, left \div Unit(b), IF allowed THEN 0 ELSE RetryAfter(b, tokens), now)]
     /\ admitted' = [admitted EXCEPT ![b] = IF allowed THEN @ + 1 ELSE @]
     /\ trail' = [trail EXCEPT ![b] =
          IF @ = NULL THEN Trail(stamp, stamp, 0)
          ELSE Trail(@.first, stamp, @.back + Max2(0, @.last - stamp))]

-----------------------------------------------------------------------------

Pass(b) == passed' = [passed EXCEPT ![b] = @ + 1]

\* rate_limit_for on a node without a limiter: the request goes on, and no
\* bucket hears of it.
PassUnlimited(r, n) ==
  /\ pending[r] = NULL /\ checks < MaxChecks
  /\ n \notin WithLimiter
  /\ checks' = checks + 1
  /\ UNCHANGED <<now, buckets, pending, decision, admitted, passed, trail>>

\* check reads the clock and sends the script.
SendCheck(r, n, b) ==
  /\ pending[r] = NULL /\ checks < MaxChecks
  /\ n \in WithLimiter
  /\ checks' = checks + 1
  /\ pending' = [pending EXCEPT ![r] = [bucket |-> b, stamp |-> now + Offset[n], sent |-> now]]
  /\ UNCHANGED <<now, buckets, decision, admitted, passed, trail>>

Done(r) == pending' = [pending EXCEPT ![r] = NULL]

\* The script runs and its answer arrives: through, or 429.
Check(r) ==
  /\ pending[r] # NULL
  /\ LET b == pending[r].bucket IN
       /\ RunBucket(b, pending[r].stamp)
       /\ IF decision'[b].allowed THEN Pass(b) ELSE UNCHANGED passed
  /\ Done(r)
  /\ UNCHANGED <<now, checks>>

\* The Err arm: fail open, or 503.
OnError(b) == IF FailOpen THEN Pass(b) ELSE UNCHANGED passed

\* Redis is out of reach: the script did not run.
CheckFails(r) ==
  /\ pending[r] # NULL
  /\ OnError(pending[r].bucket)
  /\ Done(r)
  /\ UNCHANGED <<now, buckets, decision, checks, admitted, trail>>

\* The connection fails after the script ran.
CheckAnswerLost(r) ==
  /\ pending[r] # NULL
  /\ RunBucket(pending[r].bucket, pending[r].stamp)
  /\ OnError(pending[r].bucket)
  /\ Done(r)
  /\ UNCHANGED <<now, checks>>

\* The timeout layer drops the request before its answer is there.  The script
\* does not run, or it runs all the same: the step is the moment it does, with
\* the request gone or about to go.
DropCheck(r) ==
  /\ pending[r] # NULL
  /\ Done(r)
  /\ \/ UNCHANGED <<buckets, decision, admitted, trail>>
     \/ RunBucket(pending[r].bucket, pending[r].stamp)
  /\ UNCHANGED <<now, checks, passed>>

\* Redis deletes a bucket whose time to live has passed.
Expire(b) ==
  /\ buckets[b] # NULL /\ buckets[b].expires <= now
  /\ buckets' = [buckets EXCEPT ![b] = NULL]
  /\ UNCHANGED <<now, pending, decision, checks, admitted, passed, trail>>

Tick ==
  /\ now < MaxTime
  /\ \A r \in Requests : pending[r] # NULL => now < pending[r].sent + MaxDelay
  /\ now' = now + 1
  /\ UNCHANGED <<buckets, pending, decision, checks, admitted, passed, trail>>

\* The bounds are reached and nothing is under way.
AtBounds ==
  /\ now = MaxTime /\ checks = MaxChecks
  /\ \A r \in Requests : pending[r] = NULL
  /\ UNCHANGED limiterVars

LimiterNext ==
  \/ Tick
  \/ AtBounds
  \/ \E b \in Buckets : Expire(b)
  \/ \E r \in Requests, n \in Nodes : PassUnlimited(r, n)
  \/ \E r \in Requests, n \in Nodes, b \in Buckets : SendCheck(r, n, b)
  \/ \E r \in Requests : Check(r) \/ CheckFails(r) \/ CheckAnswerLost(r) \/ DropCheck(r)

LimiterSpec == LimiterInit /\ [][LimiterNext]_limiterVars

-----------------------------------------------------------------------------
(* Properties.                                                             *)

\* Type invariant: neither a bucket nor a decision of the script ever goes below
\* zero, whatever the order of the stamps.
LimiterTypeOK ==
  /\ now \in Nat
  /\ buckets \in [Buckets -> [tokens : Nat, last : Nat, expires : Nat] \cup {NULL}]
  /\ pending \in [Requests -> [bucket : Buckets, stamp : Nat, sent : Nat] \cup {NULL}]
  /\ decision \in [Buckets -> [allowed : BOOLEAN, remaining : Nat, retryAfter : Nat, at : Nat]
                          \cup {NULL}]
  /\ checks \in Nat
  /\ admitted \in [Buckets -> Nat]
  /\ passed \in [Buckets -> Nat]
  /\ trail \in [Buckets -> [first : Nat, last : Nat, back : Nat] \cup {NULL}]

\* The limit: a bucket hands out no more than its burst plus what its rate adds
\* over the stamps it has seen, and time is credited twice only by as much as the
\* stamps went backwards.  Deleting the bucket when its PEXPIRE runs out gives
\* nothing away; a bucket that does not refill is full again only then, and hands
\* out no more than a burst per time to live.
AdmissionBound ==
  \A b \in Buckets : trail[b] # NULL =>
     IF Refills(b)
     THEN admitted[b] * Unit(b) <=
            Cap(b) + Rate(b) * (trail[b].last - trail[b].first + trail[b].back)
     ELSE admitted[b] * Unit(b) * BucketTtl(b) <= Cap(b) * (now + BucketTtl(b))

\* A refused client that waits out Retry-After, and the clocks' skew on top, before
\* it sends its next request finds a token whichever node takes it, if nobody else
\* used the bucket meanwhile (the refusal is the bucket's latest decision).  With
\* clocks that agree the header's wait is enough by itself.  A bucket that does not
\* refill promises nothing: it answers one second whatever is left of its key's life.
RetryAfterSuffices ==
  \A r \in Requests : pending[r] # NULL =>
     LET b == pending[r].bucket
         d == decision[b]
     IN  ( /\ Refills(b) /\ d # NULL /\ ~d.allowed
           /\ pending[r].sent >= d.at + d.retryAfter * Second + Skew )
         => TokensAt(b, pending[r].stamp) >= Unit(b)

\* CELLORA_API_RATE_LIMIT_FAIL_OPEN=false: whatever fails, a node that has a
\* limiter lets no request through without a token.
FailClosed ==
  ~FailOpen => \A b \in Buckets : passed[b] <= admitted[b]

\* Together: with fail-open off, the requests that rate_limit_for lets through
\* where there is a limiter stay within the bound of their bucket, whatever Redis
\* does and however the clocks differ.
RequestsMetered == AdmissionBound /\ FailClosed

=============================================================================
