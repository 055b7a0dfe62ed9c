-------------------------- MODULE RequestPathProofs --------------------------
(***************************************************************************)
(* The way of a request into the API.  The token bucket keeps its limit    *)
(* for every burst, rate, number of nodes and requests, skew and delay;    *)
(* the layers around the handlers and the counters they keep fit together, *)
(* and main stops in order, for any number of requests in flight.          *)
(***************************************************************************)
EXTENDS RateLimiter, ApiProcess, TLAPS

-----------------------------------------------------------------------------
(* The token bucket.                                                       *)

\* Multiplication by a natural number is monotone.
LEMMA TimesMonotone ==
  ASSUME NEW c \in Nat, NEW x \in Int, NEW y \in Int, x <= y
  PROVE  c * x <= c * y
<1>1. y - x \in Nat
  OBVIOUS
<1>2. \A n \in Nat : c * n >= 0
  OBVIOUS
<1>3. c * (y - x) >= 0
  BY <1>1, <1>2
<1>4. c * (y - x) = c * y - c * x
  OBVIOUS
<1> QED BY <1>3, <1>4

\* Multiplication distributes over a sum.
LEMMA TimesSum ==
  ASSUME NEW c \in Nat, NEW x \in Int, NEW y \in Int
  PROVE  c * (x + y) = c * x + c * y /\ c * x \in Int /\ c * y \in Int
OBVIOUS

\* What the counts of two steps need of arithmetic.
LEMMA CountsStay ==
  /\ \A a, b, c \in Nat : a <= b /\ b <= c => a <= c
  /\ \A a, b \in Nat : a <= b => a + 1 <= b + 1
OBVIOUS

\* CeilDiv rounds up.
LEMMA CeilDivUp ==
  ASSUME NEW a \in Nat, NEW c \in Nat, c > 0
  PROVE  CeilDiv(a, c) \in Nat /\ c * CeilDiv(a, c) >= a
<1>1. a + c - 1 \in Nat /\ c \in Nat \ {0}
  OBVIOUS
<1>2. (a + c - 1) \div c \in Nat
  BY <1>1
<1>3. c * ((a + c - 1) \div c) + ((a + c - 1) % c) = a + c - 1
  BY <1>1
<1>4. (a + c - 1) % c <= c - 1
  BY <1>1
<1> QED BY <1>2, <1>3, <1>4 DEF CeilDiv

-----------------------------------------------------------------------------

\* The time a bucket's stamps have credited it with.
Span(b) == trail[b].last - trail[b].first + trail[b].back

Held(b) == IF buckets[b] = NULL THEN 0 ELSE buckets[b].tokens

Until(b) == IF buckets[b] = NULL THEN now ELSE buckets[b].expires

\* Tokens taken and tokens held.
Given(b) == admitted[b] * Unit(b) + Held(b)

\* What is given is within the limit: the rate's where the bucket refills, a burst
\* per time to live where it does not.  The bucket outlives its last stamp by its
\* time to live, give or take the skew.
BucketInv(b) ==
  /\ trail[b] = NULL => buckets[b] = NULL /\ admitted[b] = 0
  /\ trail[b] # NULL =>
        /\ Refills(b) => Given(b) <= Cap(b) + Rate(b) * Span(b)
        /\ ~Refills(b) => Given(b) * BucketTtl(b) <= Cap(b) * Until(b)
        /\ trail[b].last + BucketTtl(b) <= Until(b) + Skew
        /\ Until(b) <= now + BucketTtl(b)
  /\ buckets[b] # NULL => buckets[b].last = trail[b].last

\* A request's stamp is no further from now than the delay and the skew allow.
RequestInv ==
  \A r \in Requests : pending[r] # NULL =>
     /\ pending[r].sent <= now /\ now <= pending[r].sent + MaxDelay
     /\ pending[r].sent <= pending[r].stamp /\ pending[r].stamp <= pending[r].sent + Skew

LimitInv == LimiterTypeOK /\ RequestInv /\ \A b \in Buckets : BucketInv(b)

\* What the limits of a bucket are.
LEMMA LimitFacts ==
  ASSUME NEW b \in Buckets
  PROVE  /\ Cap(b) \in Nat /\ Rate(b) \in Nat /\ Unit(b) \in Nat
         /\ Unit(b) > 0 /\ BucketTtl(b) \in Nat
         /\ Refills(b) => Rate(b) > 0 /\ Rate(b) * BucketTtl(b) >= 2 * Cap(b)
         /\ ~Refills(b) => Rate(b) = 0
         /\ Rate(b) * (MaxDelay + Skew) <= Cap(b)
<1>1. /\ Cap(b) \in Nat /\ Rate(b) \in Nat /\ Unit(b) \in Nat
      /\ Unit(b) > 0 /\ 2 * Cap(b) \in Nat
  BY LimiterConstants DEF Cap, Rate, Unit
<1>2. ASSUME Refills(b)
      PROVE  BucketTtl(b) \in Nat /\ Rate(b) > 0 /\ Rate(b) * BucketTtl(b) >= 2 * Cap(b)
  <2>1. Rate(b) > 0 /\ BucketTtl(b) = CeilDiv(2 * Cap(b), Rate(b))
    BY <1>2 DEF BucketTtl, Refills
  <2>2. BucketTtl(b) \in Nat /\ Rate(b) * BucketTtl(b) >= 2 * Cap(b)
    BY <1>1, <2>1, CeilDivUp
  <2> QED BY <2>1, <2>2
<1>3. ASSUME ~Refills(b) PROVE BucketTtl(b) \in Nat /\ Rate(b) = 0
  BY <1>1, <1>3, LimiterConstants DEF BucketTtl, Refills
<1>4. Rate(b) * (MaxDelay + Skew) <= Cap(b)
  BY SlackWithinFill DEF Rate, Cap
<1> QED BY <1>1, <1>2, <1>3, <1>4, Zenon

\* Full again: when a bucket is gone, the time since its last stamp pays for a
\* whole burst.
LEMMA ExpiredMeansFull ==
  ASSUME NEW b \in Buckets, NEW last \in Nat, NEW stamp \in Nat, NEW t \in Nat,
         Refills(b), last + BucketTtl(b) <= t + Skew, t - MaxDelay <= stamp
  PROVE  Rate(b) * (stamp - last) >= Cap(b)
<1> USE LimitFacts, LimiterConstants
<1> DEFINE slack == MaxDelay + Skew
<1>1. slack \in Int /\ BucketTtl(b) - slack \in Int /\ stamp - last \in Int /\ 0 - slack \in Int
  BY LimitFacts, LimiterConstants
<1>2. BucketTtl(b) - slack <= stamp - last
  BY LimitFacts, LimiterConstants
<1>3. Rate(b) * (BucketTtl(b) - slack) <= Rate(b) * (stamp - last)
  BY <1>1, <1>2, LimitFacts, TimesMonotone
<1>4. Rate(b) * (BucketTtl(b) - slack) = Rate(b) * BucketTtl(b) - Rate(b) * slack
  BY <1>1, LimitFacts
<1>5. Rate(b) * slack <= Cap(b) /\ Rate(b) * BucketTtl(b) >= 2 * Cap(b)
  BY LimitFacts
<1>6. Rate(b) * slack \in Int /\ Rate(b) * BucketTtl(b) \in Int /\ Cap(b) \in Nat
      /\ Rate(b) * (stamp - last) \in Int
  BY <1>1, LimitFacts
<1> HIDE DEF slack
<1> QED BY ONLY <1>3, <1>4, <1>5, <1>6

\* The script finds at most what the limit still allows: where the bucket refills,
LEMMA TokensWithinLimit ==
  ASSUME LimiterTypeOK, NEW b \in Buckets, BucketInv(b), trail[b] # NULL,
         Refills(b), NEW stamp \in Nat, now - MaxDelay <= stamp
  PROVE  /\ TokensAt(b, stamp) \in Nat
         /\ admitted[b] * Unit(b) + TokensAt(b, stamp)
              <= Cap(b) + Rate(b) * (Span(b) + Max2(0, stamp - trail[b].last))
<1> DEFINE spent == admitted[b] * Unit(b)
           gain == Max2(0, stamp - trail[b].last)
<1>1. /\ trail[b].first \in Nat /\ trail[b].last \in Nat /\ trail[b].back \in Nat
      /\ Span(b) \in Int /\ now \in Nat
  BY DEF LimiterTypeOK, Span
<1>2. gain \in Nat /\ gain >= stamp - trail[b].last
  BY <1>1 DEF Max2
<1>3. Cap(b) \in Nat /\ Rate(b) \in Nat /\ spent \in Nat
  BY LimitFacts DEF LimiterTypeOK
<1>4. Rate(b) * (Span(b) + gain) = Rate(b) * Span(b) + Rate(b) * gain
      /\ Rate(b) * Span(b) \in Int /\ Rate(b) * gain \in Nat
  <2> HIDE DEF gain
  <2>1. \A x \in Nat, y \in Nat : x * y \in Nat
    OBVIOUS
  <2> QED BY <1>1, <1>2, <1>3, <2>1, TimesSum
<1>5. CASE buckets[b] = NULL
  <2>1. TokensAt(b, stamp) = Cap(b)
    BY <1>5 DEF TokensAt
  <2>2. spent <= Cap(b) + Rate(b) * Span(b)
    BY <1>3, <1>5 DEF BucketInv, Given, Held
  <2>3. trail[b].last + BucketTtl(b) <= now + Skew
    BY <1>5 DEF BucketInv, Until
  <2>4. Rate(b) * (stamp - trail[b].last) >= Cap(b)
    BY <1>1, <2>3, ExpiredMeansFull
  <2>5. Rate(b) * gain >= Rate(b) * (stamp - trail[b].last)
    BY <1>1, <1>2, <1>3, TimesMonotone
  <2>6. Rate(b) * (stamp - trail[b].last) \in Int
    BY <1>1, <1>3
  <2> HIDE DEF spent, gain
  <2>7. spent + Cap(b) <= Cap(b) + (Rate(b) * Span(b) + Rate(b) * gain)
    BY ONLY <1>3, <1>4, <2>2, <2>4, <2>5, <2>6
  <2> QED BY <1>3, <1>4, <2>1, <2>7 DEF spent, gain
<1>6. CASE buckets[b] # NULL
  <2>1. buckets[b].tokens \in Nat /\ buckets[b].last = trail[b].last
    BY <1>6 DEF LimiterTypeOK, BucketInv
  <2>2. spent + buckets[b].tokens <= Cap(b) + Rate(b) * Span(b)
    BY <1>6 DEF BucketInv, Given, Held
  <2>3. TokensAt(b, stamp) = Min2(Cap(b), buckets[b].tokens + Rate(b) * gain)
    BY <1>6, <2>1 DEF TokensAt, Refilled
  <2> HIDE DEF spent, gain
  <2>4. TokensAt(b, stamp) \in Nat /\ TokensAt(b, stamp) <= buckets[b].tokens + Rate(b) * gain
    BY <1>3, <1>4, <2>1, <2>3 DEF Min2
  <2>5. spent + TokensAt(b, stamp) <= Cap(b) + (Rate(b) * Span(b) + Rate(b) * gain)
    BY ONLY <1>3, <1>4, <2>1, <2>2, <2>4
  <2> QED BY <1>4, <2>4, <2>5 DEF spent, gain
<1> QED BY <1>5, <1>6

\* and where it does not, whether or not its time to live ran out.
LEMMA TokensWithinLives ==
  ASSUME LimiterTypeOK, NEW b \in Buckets, BucketInv(b), trail[b] # NULL,
         ~Refills(b), NEW stamp \in Nat
  PROVE  /\ TokensAt(b, stamp) \in Nat
         /\ (admitted[b] * Unit(b) + TokensAt(b, stamp)) * BucketTtl(b)
              <= Cap(b) * (now + BucketTtl(b))
<1> DEFINE spent == admitted[b] * Unit(b)
           ttl == BucketTtl(b)
           cap == Cap(b)
<1>1. cap \in Nat /\ ttl \in Nat /\ spent \in Nat /\ now \in Nat /\ Rate(b) = 0
  BY LimitFacts DEF LimiterTypeOK
<1>2. CASE buckets[b] = NULL
  <2>1. TokensAt(b, stamp) = cap
    BY <1>2 DEF TokensAt
  <2>2. (spent + 0) * ttl <= cap * now
    BY <1>2, Zenon DEF BucketInv, Given, Held, Until
  <2> HIDE DEF spent, ttl, cap
  <2>3. (spent + cap) * ttl = (spent + 0) * ttl + cap * ttl
        /\ cap * (now + ttl) = cap * now + cap * ttl
    BY <1>1
  <2>4. (spent + 0) * ttl \in Int /\ cap * ttl \in Int /\ cap * now \in Int
    BY <1>1
  <2>5. (spent + cap) * ttl <= cap * (now + ttl)
    BY ONLY <2>2, <2>3, <2>4
  <2> QED BY <1>1, <2>1, <2>5, Zenon DEF spent, ttl, cap
<1>3. CASE buckets[b] # NULL
  <2> DEFINE held == buckets[b].tokens
             found == TokensAt(b, stamp)
             until == buckets[b].expires
  <2>1. held \in Nat /\ until \in Nat /\ buckets[b].last \in Nat
    BY <1>3 DEF LimiterTypeOK
  <2>2. found = Min2(cap, held + 0 * Max2(0, stamp - buckets[b].last))
    BY <1>1, <1>3, Zenon DEF TokensAt, Refilled
  <2>3. (spent + held) * ttl <= cap * until /\ until <= now + ttl
    BY <1>3, Zenon DEF BucketInv, Given, Held, Until
  <2> HIDE DEF spent, ttl, cap, held, found, until
  <2>4. found \in Nat /\ found <= held
    BY <1>1, <2>1, <2>2 DEF Min2, Max2
  <2>5. ttl * (spent + found) <= ttl * (spent + held)
    BY <1>1, <2>1, <2>4, TimesMonotone
  <2>6. cap * until <= cap * (now + ttl)
    BY <1>1, <2>1, <2>3, TimesMonotone
  <2>7. /\ ttl * (spent + found) = (spent + found) * ttl /\ (spent + found) * ttl \in Int
        /\ ttl * (spent + held) = (spent + held) * ttl /\ (spent + held) * ttl \in Int
        /\ cap * until \in Int /\ cap * (now + ttl) \in Int
    BY <1>1, <2>1, <2>4
  <2>8. (spent + found) * ttl <= cap * (now + ttl)
    BY ONLY <2>3, <2>5, <2>6, <2>7
  <2> QED BY <2>4, <2>8, Zenon DEF spent, ttl, cap, found
<1> QED BY <1>2, <1>3

\* The variables the script writes.
ScriptTypes ==
  /\ buckets \in [Buckets -> [tokens : Nat, last : Nat, expires : Nat] \cup {NULL}]
  /\ decision \in [Buckets -> [allowed : BOOLEAN, remaining : Nat, retryAfter : Nat, at : Nat]
                          \cup {NULL}]
  /\ admitted \in [Buckets -> Nat]
  /\ trail \in [Buckets -> [first : Nat, last : Nat, back : Nat] \cup {NULL}]

\* A run of the script keeps every bucket within its limit.
LEMMA RunKeepsLimit ==
  ASSUME LimitInv, NEW b \in Buckets, NEW stamp \in Nat,
         now - MaxDelay <= stamp, stamp <= now + Skew,
         RunBucket(b, stamp), now' = now
  PROVE  ScriptTypes' /\ \A c \in Buckets : BucketInv(c)'
<1> DEFINE tokens == TokensAt(b, stamp)
           allowed == tokens >= Unit(b)
           left == IF allowed THEN tokens - Unit(b) ELSE tokens
           verdict == Decision(allowed, left \div Unit(b), IF allowed THEN 0 ELSE RetryAfter(b, tokens), now)
           path == IF trail[b] = NULL THEN Trail(stamp, stamp, 0)
                   ELSE Trail(trail[b].first, stamp, trail[b].back + Max2(0, trail[b].last - stamp))
<1>1. /\ buckets' = [buckets EXCEPT ![b] = Bucket(left, stamp, now + BucketTtl(b))]
      /\ decision' = [decision EXCEPT ![b] = verdict]
      /\ admitted' = [admitted EXCEPT ![b] = IF allowed THEN admitted[b] + 1 ELSE admitted[b]]
      /\ trail' = [trail EXCEPT ![b] = path]
  BY DEF RunBucket
<1>2. /\ LimiterTypeOK /\ BucketInv(b) /\ now \in Nat
      /\ admitted[b] \in Nat
      /\ Cap(b) \in Nat /\ Unit(b) \in Nat /\ Unit(b) > 0 /\ Rate(b) \in Nat
      /\ BucketTtl(b) \in Nat /\ Skew \in Nat /\ Second \in Nat /\ Second > 0
  BY LimitFacts, LimiterConstants DEF LimitInv, LimiterTypeOK
<1>3. tokens \in Nat
  <2>1. CASE trail[b] = NULL
    BY <1>2, <2>1 DEF BucketInv, TokensAt
  <2>2. CASE trail[b] # NULL
    BY <1>2, <2>2, TokensWithinLimit, TokensWithinLives
  <2> QED BY <2>1, <2>2
<1> HIDE DEF tokens
<1>4. left \in Nat /\ left <= tokens
  BY <1>2, <1>3
<1>5. verdict \in [allowed : BOOLEAN, remaining : Nat, retryAfter : Nat, at : Nat]
  <2>1. left \div Unit(b) \in Nat
    <3> HIDE DEF left
    <3> QED BY <1>2, <1>4
  <2>2. ASSUME ~allowed PROVE RetryAfter(b, tokens) \in Nat
    <3>1. Unit(b) - tokens \in Nat
      BY <1>2, <1>3, <2>2
    <3>2. CASE Refills(b)
      <4>1. CeilDiv(Unit(b) - tokens, Rate(b)) \in Nat
        BY <1>2, <3>1, <3>2, LimitFacts, CeilDivUp
      <4> QED BY <1>2, <3>2, <4>1, CeilDivUp DEF RetryAfter
    <3>3. CASE ~Refills(b)
      BY <3>3 DEF RetryAfter
    <3> QED BY <3>2, <3>3
  <2>3. allowed \in BOOLEAN
    OBVIOUS
  <2> HIDE DEF left, allowed
  <2> QED BY <1>2, <2>1, <2>2, <2>3 DEF Decision
<1>6. path \in [first : Nat, last : Nat, back : Nat]
  <2>1. trail[b] # NULL => /\ trail[b].first \in Nat /\ trail[b].back \in Nat
                          /\ trail[b].last \in Nat
    BY <1>2 DEF LimiterTypeOK
  <2> QED BY <2>1 DEF Trail, Max2
<1>7. ScriptTypes'
  <2> HIDE DEF left, verdict, path, allowed
  <2>1. Bucket(left, stamp, now + BucketTtl(b)) \in [tokens : Nat, last : Nat, expires : Nat]
    BY <1>2, <1>4 DEF Bucket
  <2>2. buckets' \in [Buckets -> [tokens : Nat, last : Nat, expires : Nat] \cup {NULL}]
    BY <1>1, <1>2, <2>1 DEF LimiterTypeOK
  <2>3. decision' \in [Buckets -> [allowed : BOOLEAN, remaining : Nat, retryAfter : Nat, at : Nat]
                          \cup {NULL}]
    BY <1>1, <1>2, <1>5 DEF LimiterTypeOK
  <2>4. admitted' \in [Buckets -> Nat]
    BY <1>1, <1>2 DEF LimiterTypeOK
  <2>5. trail' \in [Buckets -> [first : Nat, last : Nat, back : Nat] \cup {NULL}]
    BY <1>1, <1>2, <1>6 DEF LimiterTypeOK
  <2> QED BY <2>2, <2>3, <2>4, <2>5 DEF ScriptTypes
<1>8. ASSUME NEW c \in Buckets, c # b PROVE BucketInv(c)'
  <2>1. buckets'[c] = buckets[c] /\ admitted'[c] = admitted[c] /\ trail'[c] = trail[c]
    <3> HIDE DEF left, verdict, path, allowed
    <3> QED BY <1>1, <1>2, <1>8 DEF LimiterTypeOK
  <2>2. BucketInv(c)
    BY DEF LimitInv
  <2> QED BY <2>1, <2>2, Zenon
          DEF BucketInv, Given, Held, Until, Span, Cap, Rate, Unit, Refills, BucketTtl
<1>9. BucketInv(b)'
  <2>1. /\ buckets'[b].tokens = left /\ buckets'[b].last = stamp
        /\ buckets'[b].expires = now + BucketTtl(b)
        /\ admitted'[b] = (IF allowed THEN admitted[b] + 1 ELSE admitted[b])
        /\ trail'[b] = path
    <3> HIDE DEF left, verdict, path, allowed
    <3> QED BY <1>1, <1>2, Zenon DEF LimiterTypeOK, Bucket
  <2>2. /\ path.last = stamp
        /\ trail[b] = NULL => path.first = stamp /\ path.back = 0
        /\ trail[b] # NULL => /\ path.first = trail[b].first
                              /\ path.back = trail[b].back + Max2(0, trail[b].last - stamp)
    BY Zenon DEF Trail
  <2>3. trail'[b] # NULL
    <3> HIDE DEF path
    <3> QED BY <1>6, <2>1, LimiterConstants
  <2>4. admitted'[b] * Unit(b) + left = admitted[b] * Unit(b) + tokens
    <3>1. (admitted[b] + 1) * Unit(b) = admitted[b] * Unit(b) + Unit(b)
          /\ admitted[b] * Unit(b) \in Nat
      BY <1>2
    <3> QED BY <1>2, <1>3, <2>1, <3>1
  <2>5. ASSUME Refills(b)
        PROVE  admitted[b] * Unit(b) + tokens
                 <= Cap(b) + Rate(b) * (path.last - path.first + path.back)
    <3>1. CASE trail[b] = NULL
      <4>1. tokens = Cap(b) /\ admitted[b] = 0
        BY <1>2, <3>1, Zenon DEF tokens, BucketInv, TokensAt
      <4>2. path.last - path.first + path.back = 0
        BY <1>6, <2>2, <3>1
      <4>3. Cap(b) \in Nat /\ Rate(b) \in Nat /\ Unit(b) \in Nat
        BY <1>2
      <4>4. 0 * Unit(b) + Cap(b) <= Cap(b) + Rate(b) * 0
        BY <4>3
      <4> QED BY <4>1, <4>2, <4>4, Zenon
    <3>2. CASE trail[b] # NULL
      <4>1. /\ trail[b].first \in Nat /\ trail[b].last \in Nat /\ trail[b].back \in Nat
        BY <1>2, <3>2 DEF LimiterTypeOK
      <4>3. stamp - trail[b].first + (trail[b].back + Max2(0, trail[b].last - stamp))
              = (trail[b].last - trail[b].first + trail[b].back) + Max2(0, stamp - trail[b].last)
        BY <4>1 DEF Max2
      <4>2. path.last - path.first + path.back = Span(b) + Max2(0, stamp - trail[b].last)
        BY <2>2, <3>2, <4>3, Zenon DEF Span
      <4> QED BY <1>2, <2>5, <3>2, <4>2, TokensWithinLimit, Zenon DEF tokens
    <3> QED BY <3>1, <3>2, Zenon
  <2>6. ASSUME ~Refills(b)
        PROVE  (admitted[b] * Unit(b) + tokens) * BucketTtl(b) <= Cap(b) * (now + BucketTtl(b))
    <3>1. CASE trail[b] = NULL
      <4>1. tokens = Cap(b) /\ admitted[b] = 0
        BY <1>2, <3>1, Zenon DEF tokens, BucketInv, TokensAt
      <4>2. 0 * Unit(b) + Cap(b) = Cap(b)
        BY <1>2
      <4>3. Cap(b) * BucketTtl(b) <= Cap(b) * (now + BucketTtl(b))
        BY <1>2, TimesMonotone
      <4> QED BY <4>1, <4>2, <4>3, Zenon
    <3>2. CASE trail[b] # NULL
      BY <1>2, <2>6, <3>2, TokensWithinLives, Zenon DEF tokens
    <3> QED BY <3>1, <3>2, Zenon
  <2>10. /\ stamp + BucketTtl(b) <= now + BucketTtl(b) + Skew
         /\ now + BucketTtl(b) <= now + BucketTtl(b)
    BY <1>2
  <2> DEFINE cap == Cap(b)
             rate == Rate(b)
             unit == Unit(b)
             ttl == BucketTtl(b)
  <2>7. /\ Cap(b)' = cap /\ Rate(b)' = rate /\ Unit(b)' = unit /\ BucketTtl(b)' = ttl
        /\ Refills(b)' = Refills(b)
    BY DEF Cap, Rate, Unit, BucketTtl, Refills
  <2>8. /\ Span(b)' = path.last - path.first + path.back
        /\ Held(b)' = (IF buckets'[b] = NULL THEN 0 ELSE left)
        /\ Until(b)' = (IF buckets'[b] = NULL THEN now ELSE now + ttl)
    BY <2>1, Zenon DEF Span, Held, Until
  <2>9. buckets'[b] # NULL
    <3>1. Bucket(left, stamp, now + BucketTtl(b)) \in [tokens : Nat, last : Nat, expires : Nat]
      BY <1>2, <1>4 DEF Bucket
    <3> HIDE DEF left
    <3> QED BY <1>1, <1>2, <3>1, LimiterConstants, Zenon DEF LimiterTypeOK
  <2>11. Given(b)' = admitted[b] * Unit(b) + tokens
    <3>1. Held(b)' = left
      BY <2>8, <2>9, Zenon
    <3> HIDE DEF left, allowed, path, verdict
    <3> QED BY <2>4, <2>7, <3>1, Zenon DEF Given
  <2> QED BY <2>1, <2>2, <2>3, <2>5, <2>6, <2>7, <2>8, <2>9, <2>10, <2>11, Zenon DEF BucketInv
<1> QED BY <1>7, <1>8, <1>9

\* Nothing has run yet.
LEMMA LimitInvInit == LimiterInit => LimitInv
<1> SUFFICES ASSUME LimiterInit PROVE LimitInv
  OBVIOUS
<1>1. LimiterTypeOK
  BY DEF LimiterInit, LimiterTypeOK
<1>2. RequestInv
  BY DEF LimiterInit, RequestInv
<1>3. \A b \in Buckets : BucketInv(b)
  BY DEF LimiterInit, BucketInv
<1> QED BY <1>1, <1>2, <1>3 DEF LimitInv

\* A step that leaves the buckets and their history alone, except perhaps the
\* clock, keeps the limit.
LEMMA BucketsStay ==
  ASSUME LimitInv, UNCHANGED <<buckets, admitted, trail>>, now' \in Nat, now <= now'
  PROVE  \A b \in Buckets : BucketInv(b)'
<1> SUFFICES ASSUME NEW b \in Buckets PROVE BucketInv(b)'
  OBVIOUS
<1>1. BucketInv(b) /\ now \in Nat /\ Skew \in Nat
  BY LimiterConstants, Zenon DEF LimitInv, LimiterTypeOK
<1>2. BucketTtl(b)' = BucketTtl(b) /\ BucketTtl(b) \in Nat /\ Cap(b) \in Nat
  BY LimitFacts DEF BucketTtl, Cap, Rate, Refills
<1>3. trail[b] # NULL => trail[b].last \in Nat
  BY Zenon DEF LimitInv, LimiterTypeOK
<1>4. /\ Given(b)' = Given(b) /\ Span(b)' = Span(b)
      /\ Unit(b)' = Unit(b) /\ Cap(b)' = Cap(b) /\ Rate(b)' = Rate(b)
      /\ Refills(b)' = Refills(b)
  BY Zenon DEF Given, Held, Span, Unit, Cap, Rate, Refills
<1>5. CASE buckets[b] = NULL
  <2>1. Until(b) = now /\ Until(b)' = now'
    BY <1>5, Zenon DEF Until
  <2>2. /\ now' <= now' + BucketTtl(b)
        /\ trail[b] # NULL => trail[b].last + BucketTtl(b) <= now' + Skew
    BY <1>1, <1>2, <1>3, <2>1 DEF BucketInv
  <2>3. ASSUME trail[b] # NULL, ~Refills(b)
        PROVE  Given(b) * BucketTtl(b) <= Cap(b) * now'
    <3>1. Given(b) * BucketTtl(b) <= Cap(b) * now
      BY <1>1, <2>1, <2>3, Zenon DEF BucketInv
    <3>2. Cap(b) * now <= Cap(b) * now'
      BY <1>1, <1>2, TimesMonotone
    <3>3. Given(b) \in Int
      BY <1>5, LimitFacts DEF Given, Held, LimitInv, LimiterTypeOK
    <3>4. Given(b) * BucketTtl(b) \in Int /\ Cap(b) * now \in Int /\ Cap(b) * now' \in Int
      BY <1>1, <1>2, <3>3
    <3> QED BY ONLY <3>1, <3>2, <3>4
  <2> QED BY <1>1, <1>2, <1>4, <1>5, <2>1, <2>2, <2>3, Zenon DEF BucketInv
<1>6. CASE buckets[b] # NULL
  <2>1. Until(b)' = Until(b)
    BY <1>6, Zenon DEF Until
  <2>2. Until(b) \in Nat
    BY <1>6 DEF Until, LimitInv, LimiterTypeOK
  <2>3. trail[b] # NULL => Until(b) <= now' + BucketTtl(b)
    BY <1>1, <1>2, <2>2 DEF BucketInv
  <2> QED BY <1>1, <1>2, <1>4, <2>1, <2>3, Zenon DEF BucketInv
<1> QED BY <1>5, <1>6

\* A request that runs its script, whoever gets the answer, keeps the invariant.
LEMMA ScriptStep ==
  ASSUME LimitInv, NEW r \in Requests, pending[r] # NULL, Done(r),
         RunBucket(pending[r].bucket, pending[r].stamp),
         UNCHANGED <<now, checks>>, passed' \in [Buckets -> Nat]
  PROVE  LimitInv'
<1> DEFINE b == pending[r].bucket
           stamp == pending[r].stamp
<1>1. b \in Buckets /\ stamp \in Nat /\ pending[r].sent \in Nat /\ now \in Nat
  BY DEF LimitInv, LimiterTypeOK
<1>2. now - MaxDelay <= stamp /\ stamp <= now + Skew
  <2>1. /\ pending[r].sent <= now /\ now <= pending[r].sent + MaxDelay
        /\ pending[r].sent <= stamp /\ stamp <= pending[r].sent + Skew
    BY Zenon DEF LimitInv, RequestInv
  <2> QED BY <1>1, <2>1, LimiterConstants
<1>3. ScriptTypes' /\ \A c \in Buckets : BucketInv(c)'
  <2> HIDE DEF b, stamp
  <2>1. RunBucket(b, stamp)
    BY DEF b, stamp
  <2> QED BY <1>1, <1>2, <2>1, RunKeepsLimit, Zenon
<1>4. LimiterTypeOK'
  BY <1>3, Zenon DEF LimitInv, LimiterTypeOK, ScriptTypes, Done
<1>5. RequestInv'
  <2>1. \A q \in Requests : pending'[q] # NULL => pending'[q] = pending[q]
    BY DEF Done, LimitInv, LimiterTypeOK
  <2> QED BY <2>1, Zenon DEF LimitInv, RequestInv
<1> QED BY <1>3, <1>4, <1>5 DEF LimitInv

\* Letting a request through keeps the counts natural.
LEMMA PassTypes ==
  ASSUME LimitInv, NEW b \in Buckets, Pass(b) \/ UNCHANGED passed
  PROVE  passed' \in [Buckets -> Nat]
BY DEF LimitInv, LimiterTypeOK, Pass

\* The invariant is inductive.
LEMMA LimitInvStep == LimitInv /\ [LimiterNext]_limiterVars => LimitInv'
<1> SUFFICES ASSUME LimitInv, [LimiterNext]_limiterVars PROVE LimitInv'
  OBVIOUS
<1>0. now \in Nat /\ MaxDelay \in Nat /\ Skew \in Nat
  BY LimiterConstants DEF LimitInv, LimiterTypeOK
<1>1. CASE UNCHANGED limiterVars
  <2>1. \A b \in Buckets : BucketInv(b)'
    BY <1>0, <1>1, BucketsStay DEF limiterVars
  <2> QED BY <1>1, <2>1, Zenon DEF limiterVars, LimitInv, LimiterTypeOK, RequestInv
<1>2. CASE Tick
  <2>1. \A b \in Buckets : BucketInv(b)'
    BY <1>0, <1>2, BucketsStay DEF Tick
  <2>2. LimiterTypeOK'
    BY <1>2 DEF Tick, LimitInv, LimiterTypeOK
  <2>3. RequestInv'
    <3> SUFFICES ASSUME NEW r \in Requests, pending[r] # NULL
                 PROVE  /\ pending[r].sent <= now + 1 /\ now + 1 <= pending[r].sent + MaxDelay
                        /\ pending[r].sent <= pending[r].stamp
                        /\ pending[r].stamp <= pending[r].sent + Skew
      BY <1>2 DEF Tick, RequestInv
    <3>1. pending[r].sent \in Nat /\ pending[r].stamp \in Nat
      BY DEF LimitInv, LimiterTypeOK
    <3>2. now < pending[r].sent + MaxDelay
      BY <1>2 DEF Tick
    <3> QED BY <1>0, <3>1, <3>2 DEF LimitInv, RequestInv
  <2> QED BY <2>1, <2>2, <2>3 DEF LimitInv
<1>3. CASE \E b \in Buckets : Expire(b)
  <2>1. PICK b \in Buckets : Expire(b)
    BY <1>3
  <2>2. LimiterTypeOK'
    BY <2>1 DEF Expire, LimitInv, LimiterTypeOK
  <2>3. RequestInv'
    BY <2>1 DEF Expire, LimitInv, RequestInv
  <2>4. ASSUME NEW c \in Buckets PROVE BucketInv(c)'
    <3>1. /\ BucketInv(c) /\ BucketTtl(c)' = BucketTtl(c) /\ Span(c)' = Span(c)
          /\ Unit(c)' = Unit(c) /\ Cap(c)' = Cap(c) /\ Rate(c)' = Rate(c)
          /\ Refills(c)' = Refills(c)
          /\ now' = now /\ trail' = trail /\ admitted' = admitted
      BY <2>1 DEF Expire, LimitInv, BucketTtl, Span, Unit, Cap, Rate, Refills
    <3>2. CASE c # b
      <4>1. Held(c)' = Held(c) /\ Until(c)' = Until(c) /\ buckets'[c] = buckets[c]
        BY <2>1, <3>2 DEF Expire, LimitInv, LimiterTypeOK, Held, Until
      <4> QED BY <3>1, <4>1, Zenon DEF BucketInv, Given
    <3>3. CASE c = b
      <4> DEFINE spent == admitted[c] * Unit(c)
                 ttl == BucketTtl(c)
                 cap == Cap(c)
                 until == Until(c)
                 held == Held(c)
      <4>1. buckets'[c] = NULL /\ Held(c)' = 0 /\ Until(c)' = now
        BY <2>1, <3>3, Zenon DEF Expire, LimitInv, LimiterTypeOK, Held, Until
      <4>2. buckets[c] # NULL /\ held \in Nat /\ until <= now /\ until \in Nat
        BY <2>1, <3>3 DEF Expire, LimitInv, LimiterTypeOK, Held, Until
      <4>3. trail[c] # NULL => /\ trail[c].last \in Nat /\ Span(c) \in Int
        BY DEF LimitInv, LimiterTypeOK, Span
      <4>4. /\ spent \in Nat /\ cap \in Nat /\ ttl \in Nat
            /\ trail[c] # NULL => Rate(c) * Span(c) \in Int
        BY <4>3, LimitFacts DEF LimitInv, LimiterTypeOK
      <4>5. Given(c) = spent + held /\ Given(c)' = spent + 0
        BY <3>1, <4>1, Zenon DEF Given
      <4>6. trail[c] # NULL =>
              /\ Refills(c) => spent + 0 <= cap + Rate(c) * Span(c)
              /\ trail[c].last + ttl <= now + Skew
              /\ now <= now + ttl
        <5> HIDE DEF spent, ttl, cap, until, held
        <5>1. trail[c] # NULL =>
                /\ Refills(c) => spent + held <= cap + Rate(c) * Span(c)
                /\ trail[c].last + ttl <= until + Skew
          BY <3>1, <4>5, Zenon DEF BucketInv, ttl, cap, until
        <5> QED BY <1>0, <4>2, <4>3, <4>4, <5>1
      <4>7. ASSUME trail[c] # NULL, ~Refills(c) PROVE (spent + 0) * ttl <= cap * now
        <5>1. (spent + held) * ttl <= cap * until
          BY <3>1, <4>5, <4>7, Zenon DEF BucketInv
        <5> HIDE DEF spent, ttl, cap, until, held
        <5>2. cap * until <= cap * now
          BY <1>0, <4>2, <4>4, TimesMonotone
        <5>3. ttl * (spent + 0) <= ttl * (spent + held)
          BY <4>2, <4>4, TimesMonotone
        <5>4. /\ ttl * (spent + 0) = (spent + 0) * ttl /\ (spent + 0) * ttl \in Int
              /\ ttl * (spent + held) = (spent + held) * ttl /\ (spent + held) * ttl \in Int
              /\ cap * until \in Int /\ cap * now \in Int
          BY <1>0, <4>2, <4>4
        <5> QED BY ONLY <5>1, <5>2, <5>3, <5>4
      <4>8. trail[c] # NULL
        BY <3>1, <4>2, Zenon DEF BucketInv
      <4> QED BY <3>1, <4>1, <4>5, <4>6, <4>7, <4>8, Zenon DEF BucketInv
    <3> QED BY <3>2, <3>3
  <2> QED BY <2>2, <2>3, <2>4 DEF LimitInv
<1>4. CASE \E r \in Requests, n \in Nodes : PassUnlimited(r, n)
  <2>1. PICK r \in Requests, n \in Nodes : PassUnlimited(r, n)
    BY <1>4, Zenon
  <2>2. \A c \in Buckets : BucketInv(c)'
    BY <1>0, <2>1, BucketsStay DEF PassUnlimited
  <2>3. RequestInv'
    BY <2>1, Zenon DEF PassUnlimited, LimitInv, RequestInv
  <2>4. checks' \in Nat
    BY <2>1 DEF PassUnlimited, LimitInv, LimiterTypeOK
  <2>5. LimiterTypeOK'
    BY <2>1, <2>4, Zenon DEF PassUnlimited, LimitInv, LimiterTypeOK
  <2> QED BY <2>2, <2>3, <2>5, Zenon DEF LimitInv
<1>5. CASE \E r \in Requests, n \in Nodes, b \in Buckets : SendCheck(r, n, b)
  <2>1. PICK r \in Requests, n \in Nodes, b \in Buckets : SendCheck(r, n, b)
    BY <1>5
  <2>2. \A c \in Buckets : BucketInv(c)'
    BY <1>0, <2>1, BucketsStay DEF SendCheck
  <2>3. Offset[n] \in 0 .. Skew
    BY LimiterConstants
  <2> DEFINE new == [bucket |-> b, stamp |-> now + Offset[n], sent |-> now]
  <2>4. /\ new \in [bucket : Buckets, stamp : Nat, sent : Nat]
        /\ new.sent = now /\ new.stamp = now + Offset[n]
    BY <1>0, <2>3
  <2>5. pending' = [pending EXCEPT ![r] = new]
    BY <2>1 DEF SendCheck
  <2> HIDE DEF new
  <2>6. LimiterTypeOK'
    BY <2>1, <2>4, <2>5 DEF SendCheck, LimitInv, LimiterTypeOK
  <2>7. RequestInv'
    <3>1. \A q \in Requests : pending'[q] = IF q = r THEN new ELSE pending[q]
      BY <2>5, Zenon DEF LimitInv, LimiterTypeOK
    <3>2. now' = now
      BY <2>1 DEF SendCheck
    <3>3. /\ new.sent <= now /\ now <= new.sent + MaxDelay
          /\ new.sent <= new.stamp /\ new.stamp <= new.sent + Skew
      BY <1>0, <2>3, <2>4
    <3> QED BY <3>1, <3>2, <3>3, Zenon DEF LimitInv, RequestInv
  <2> QED BY <2>2, <2>6, <2>7 DEF LimitInv
<1>6. CASE \E r \in Requests : Check(r)
  <2>1. PICK r \in Requests : Check(r)
    BY <1>6
  <2>2. pending[r].bucket \in Buckets
    BY <2>1, Zenon DEF Check, LimitInv, LimiterTypeOK
  <2>3. passed' \in [Buckets -> Nat]
    BY <2>1, <2>2, PassTypes, Zenon DEF Check
  <2> QED BY <2>1, <2>3, ScriptStep, Zenon DEF Check
<1>7. CASE \E r \in Requests : CheckFails(r)
  <2>1. PICK r \in Requests : CheckFails(r)
    BY <1>7
  <2>2. pending[r].bucket \in Buckets
    BY <2>1, Zenon DEF CheckFails, LimitInv, LimiterTypeOK
  <2>3. passed' \in [Buckets -> Nat]
    BY <2>1, <2>2, PassTypes DEF CheckFails, OnError
  <2>4. \A c \in Buckets : BucketInv(c)'
    BY <1>0, <2>1, BucketsStay DEF CheckFails
  <2>5. \A q \in Requests : pending'[q] # NULL => pending'[q] = pending[q]
    BY <2>1, Zenon DEF CheckFails, Done, LimitInv, LimiterTypeOK
  <2>6. RequestInv'
    BY <2>1, <2>5, Zenon DEF CheckFails, LimitInv, RequestInv
  <2>7. LimiterTypeOK'
    BY <2>1, <2>3, Zenon DEF CheckFails, Done, LimitInv, LimiterTypeOK
  <2> QED BY <2>4, <2>6, <2>7 DEF LimitInv
<1>8. CASE \E r \in Requests : CheckAnswerLost(r)
  <2>1. PICK r \in Requests : CheckAnswerLost(r)
    BY <1>8
  <2>2. pending[r].bucket \in Buckets
    BY <2>1, Zenon DEF CheckAnswerLost, LimitInv, LimiterTypeOK
  <2>3. passed' \in [Buckets -> Nat]
    BY <2>1, <2>2, PassTypes DEF CheckAnswerLost, OnError
  <2> QED BY <2>1, <2>3, ScriptStep, Zenon DEF CheckAnswerLost
<1>9. CASE \E r \in Requests : DropCheck(r)
  <2>1. PICK r \in Requests : DropCheck(r)
    BY <1>9
  <2>2. passed' \in [Buckets -> Nat]
    BY <2>1, Zenon DEF DropCheck, LimitInv, LimiterTypeOK
  <2>3. CASE RunBucket(pending[r].bucket, pending[r].stamp)
    BY <2>1, <2>2, <2>3, ScriptStep DEF DropCheck
  <2>4. CASE UNCHANGED <<buckets, decision, admitted, trail>>
    <3>1. \A c \in Buckets : BucketInv(c)'
      BY <1>0, <2>1, <2>4, BucketsStay DEF DropCheck
    <3>2. \A q \in Requests : pending'[q] # NULL => pending'[q] = pending[q]
      BY <2>1, Zenon DEF DropCheck, Done, LimitInv, LimiterTypeOK
    <3>3. RequestInv'
      BY <2>1, <3>2, Zenon DEF DropCheck, LimitInv, RequestInv
    <3>4. LimiterTypeOK'
      BY <2>1, <2>4, Zenon DEF DropCheck, Done, LimitInv, LimiterTypeOK
    <3> QED BY <3>1, <3>3, <3>4 DEF LimitInv
  <2> QED BY <2>1, <2>3, <2>4 DEF DropCheck
<1>10. CASE AtBounds
  BY <1>1, <1>10 DEF AtBounds
<1> QED BY <1>1, <1>2, <1>3, <1>4, <1>5, <1>6, <1>7, <1>8, <1>9, <1>10 DEF LimiterNext

\* The limit holds: whatever the order in which stamps reach Redis, a bucket gives
\* out its burst and its rate over the time its stamps span, and only time that a
\* backward stamp makes it see twice comes on top; one that does not refill gives
\* out a burst per time to live.
THEOREM LimitHolds == LimiterSpec => []AdmissionBound
<1>1. LimitInv => AdmissionBound
  <2> SUFFICES ASSUME LimitInv, NEW b \in Buckets, trail[b] # NULL
               PROVE  IF Refills(b)
                      THEN admitted[b] * Unit(b) <= Cap(b) + Rate(b) * Span(b)
                      ELSE admitted[b] * Unit(b) * BucketTtl(b) <= Cap(b) * (now + BucketTtl(b))
    BY Zenon DEF AdmissionBound, Span
  <2> DEFINE spent == admitted[b] * Unit(b)
             ttl == BucketTtl(b)
             cap == Cap(b)
             until == Until(b)
             held == Held(b)
  <2>1. BucketInv(b)
    BY DEF LimitInv
  <2>2. held \in Nat /\ Span(b) \in Int /\ until \in Nat /\ now \in Nat
    BY DEF LimitInv, LimiterTypeOK, Held, Span, Until
  <2>3. spent \in Nat /\ cap \in Nat /\ ttl \in Nat /\ Rate(b) * Span(b) \in Int
    BY <2>2, LimitFacts DEF LimitInv, LimiterTypeOK
  <2>4. /\ Refills(b) => spent + held <= cap + Rate(b) * Span(b)
        /\ ~Refills(b) => (spent + held) * ttl <= cap * until
        /\ until <= now + ttl
    BY <2>1, Zenon DEF BucketInv, Given
  <2> HIDE DEF spent, ttl, cap, until, held
  <2>5. CASE Refills(b)
    <3>1. spent <= cap + Rate(b) * Span(b)
      BY <2>2, <2>3, <2>4, <2>5
    <3> QED BY <2>5, <3>1, Zenon DEF spent, cap
  <2>6. CASE ~Refills(b)
    <3>1. cap * until <= cap * (now + ttl)
      BY <2>2, <2>3, <2>4, TimesMonotone
    <3>2. ttl * spent <= ttl * (spent + held)
      BY <2>2, <2>3, TimesMonotone
    <3>3. /\ ttl * spent = spent * ttl /\ spent * ttl \in Int
          /\ ttl * (spent + held) = (spent + held) * ttl /\ (spent + held) * ttl \in Int
          /\ cap * until \in Int /\ cap * (now + ttl) \in Int
      BY <2>2, <2>3
    <3>4. spent * ttl <= cap * (now + ttl)
      BY ONLY <2>4, <2>6, <3>1, <3>2, <3>3
    <3> QED BY <2>6, <3>4, Zenon DEF spent, ttl, cap
  <2> QED BY <2>5, <2>6
<1> QED BY <1>1, LimitInvInit, LimitInvStep, PTL DEF LimiterSpec

-----------------------------------------------------------------------------

\* A refused client's wait, rounded up twice, refills what is missing.
LEMMA WaitRefills ==
  ASSUME NEW b \in Buckets, Refills(b), NEW tokens \in Nat, tokens < Unit(b)
  PROVE  Refilled(b, tokens, RetryAfter(b, tokens) * Second) >= Unit(b)
<1> DEFINE missing == Unit(b) - tokens
           ms == CeilDiv(missing, Rate(b))
           wait == RetryAfter(b, tokens)
<1>1. /\ Rate(b) \in Nat /\ Rate(b) > 0 /\ Unit(b) \in Nat /\ Cap(b) \in Nat
      /\ Unit(b) <= Cap(b) /\ Second \in Nat /\ Second > 0 /\ missing \in Nat
  BY LimitFacts, LimiterConstants DEF Unit, Cap
<1>2. ms \in Nat /\ Rate(b) * ms >= missing
  BY <1>1, CeilDivUp
<1>3. wait = CeilDiv(ms, Second)
  BY DEF RetryAfter
<1> HIDE DEF ms, wait
<1>4. wait \in Nat /\ Second * wait >= ms
  BY <1>1, <1>2, <1>3, CeilDivUp
<1>5. wait * Second \in Nat /\ wait * Second = Second * wait
  BY <1>1, <1>4
<1>6. Rate(b) * (wait * Second) >= Rate(b) * ms
  BY <1>1, <1>2, <1>4, <1>5, TimesMonotone
<1>7. Rate(b) * (wait * Second) \in Int /\ Rate(b) * ms \in Int
  BY <1>1, <1>2, <1>5
<1>8. tokens + Rate(b) * (wait * Second) >= Unit(b)
  BY ONLY <1>1, <1>2, <1>6, <1>7, tokens \in Nat DEF missing
<1>9. Max2(0, wait * Second) = wait * Second
  BY <1>5 DEF Max2
<1> QED BY <1>1, <1>7, <1>8, <1>9, Zenon DEF Refilled, Min2, wait

\* A longer time refills no less.
LEMMA RefillMonotone ==
  ASSUME NEW b \in Buckets, NEW tokens \in Nat, NEW short \in Int, NEW long \in Int,
         short <= long
  PROVE  Refilled(b, tokens, short) <= Refilled(b, tokens, long)
<1> DEFINE s == Max2(0, short)
           l == Max2(0, long)
<1>1. s \in Nat /\ l \in Nat /\ s <= l
  BY DEF Max2
<1>2. Rate(b) \in Nat /\ Cap(b) \in Nat
  BY LimitFacts
<1> HIDE DEF s, l
<1>3. Rate(b) * s <= Rate(b) * l /\ Rate(b) * s \in Int /\ Rate(b) * l \in Int
  BY <1>1, <1>2, TimesMonotone
<1>4. Min2(Cap(b), tokens + Rate(b) * s) <= Min2(Cap(b), tokens + Rate(b) * l)
  BY <1>2, <1>3 DEF Min2
<1> QED BY <1>4, Zenon DEF Refilled, s, l

\* A refusal is the bucket's latest run: its stamp is at most the skew ahead of the
\* moment it ran, and what it left needs no more than the wait it announced.
WaitInv(b) ==
  /\ Refills(b) /\ buckets[b] # NULL /\ decision[b] # NULL
  /\ ~decision[b].allowed
  => /\ buckets[b].last <= decision[b].at + Skew
     /\ Refilled(b, buckets[b].tokens, decision[b].retryAfter * Second) >= Unit(b)

\* Retry-After and the skew are long enough, for every burst, rate and unit, for
\* every node the retry reaches and every way the clocks differ.
THEOREM RetrySucceeds == LimiterSpec => []RetryAfterSuffices
<1> DEFINE Waits == \A b \in Buckets : WaitInv(b)
           Inv == LimitInv /\ Waits
<1>1. LimiterInit => Waits
  BY DEF LimiterInit, WaitInv
<1>2. ASSUME Inv, LimitInv', NEW b \in Buckets, NEW stamp \in Nat, stamp <= now + Skew,
             RunBucket(b, stamp)
      PROVE  Waits'
  <2> SUFFICES ASSUME NEW c \in Buckets, Refills(c), buckets'[c] # NULL, decision'[c] # NULL,
                      ~decision'[c].allowed
               PROVE  /\ buckets'[c].last <= decision'[c].at + Skew
                      /\ Refilled(c, buckets'[c].tokens, decision'[c].retryAfter * Second) >= Unit(c)
    BY Zenon DEF WaitInv, Refilled, Cap, Rate, Unit, Refills
  <2>1. CASE c # b
    <3>1. buckets'[c] = buckets[c] /\ decision'[c] = decision[c]
      BY <1>2, <2>1, Zenon DEF RunBucket, LimitInv, LimiterTypeOK
    <3> QED BY <1>2, <3>1, Zenon DEF WaitInv
  <2>2. CASE c = b
    <3> DEFINE tokens == TokensAt(b, stamp)
               allowed == tokens >= Unit(b)
               left == IF allowed THEN tokens - Unit(b) ELSE tokens
    <3>1. /\ buckets'[c].tokens = left /\ buckets'[c].last = stamp
          /\ decision'[c].allowed = allowed /\ decision'[c].at = now
          /\ decision'[c].retryAfter = (IF allowed THEN 0 ELSE RetryAfter(b, tokens))
      BY <1>2, <2>2, Zenon DEF RunBucket, LimitInv, LimiterTypeOK, Bucket, Decision
    <3>2. left \in Nat
      <4> HIDE DEF left, allowed
      <4> QED BY <1>2, <3>1, Zenon DEF LimitInv, LimiterTypeOK
    <3>3. tokens = left /\ ~allowed
      BY <3>1, Zenon
    <3>4. tokens \in Nat /\ tokens < Unit(b)
      <4> HIDE DEF tokens, left
      <4> QED BY <3>2, <3>3, LimitFacts
    <3> HIDE DEF tokens
    <3> QED BY <1>2, <2>2, <3>1, <3>3, <3>4, WaitRefills, Zenon
  <2> QED BY <2>1, <2>2
<1>3. Inv /\ LimitInv' /\ [LimiterNext]_limiterVars => Waits'
  <2> SUFFICES ASSUME Inv, LimitInv', [LimiterNext]_limiterVars PROVE Waits'
    OBVIOUS
  <2>1. CASE UNCHANGED <<buckets, decision>>
    BY <2>1, Zenon DEF WaitInv, Refilled, Cap, Rate, Unit, Refills
  <2>2. CASE \E b \in Buckets : Expire(b)
    <3>1. \A c \in Buckets : buckets'[c] # NULL => buckets'[c] = buckets[c] /\ decision'[c] = decision[c]
      BY <2>2, Zenon DEF Expire, LimitInv, LimiterTypeOK
    <3> QED BY <3>1, Zenon DEF WaitInv, Refilled, Cap, Rate, Unit, Refills
  <2>3. CASE \E r \in Requests : pending[r] # NULL /\ RunBucket(pending[r].bucket, pending[r].stamp)
    <3>1. PICK r \in Requests : pending[r] # NULL /\ RunBucket(pending[r].bucket, pending[r].stamp)
      BY <2>3
    <3>2. pending[r].bucket \in Buckets /\ pending[r].stamp \in Nat /\ pending[r].sent \in Nat
      BY <3>1, Zenon DEF LimitInv, LimiterTypeOK
    <3>3. pending[r].sent <= now /\ pending[r].stamp <= pending[r].sent + Skew
      BY <3>1, Zenon DEF LimitInv, RequestInv
    <3>4. pending[r].stamp <= now + Skew
      BY <3>2, <3>3, LimiterConstants DEF LimitInv, LimiterTypeOK
    <3> QED BY <1>2, <3>1, <3>2, <3>4, Zenon
  <2> QED BY <2>1, <2>2, <2>3, Zenon
          DEF LimiterNext, limiterVars, Tick, AtBounds, PassUnlimited, SendCheck, Check, CheckFails, CheckAnswerLost, DropCheck
<1>4. Inv => RetryAfterSuffices
  <2> SUFFICES ASSUME Inv, NEW r \in Requests, pending[r] # NULL,
                      Refills(pending[r].bucket), decision[pending[r].bucket] # NULL,
                      ~decision[pending[r].bucket].allowed,
                      pending[r].sent >= decision[pending[r].bucket].at
                        + decision[pending[r].bucket].retryAfter * Second + Skew
               PROVE  TokensAt(pending[r].bucket, pending[r].stamp) >= Unit(pending[r].bucket)
    BY Zenon DEF RetryAfterSuffices
  <2> DEFINE b == pending[r].bucket
             stamp == pending[r].stamp
             d == decision[b]
             wait == d.retryAfter * Second
  <2>1. b \in Buckets /\ stamp \in Nat /\ pending[r].sent \in Nat
    BY DEF LimitInv, LimiterTypeOK
  <2>2. d.at \in Nat /\ d.retryAfter \in Nat
    BY <2>1 DEF LimitInv, LimiterTypeOK
  <2>3. wait \in Nat /\ Skew \in Nat
    <3> HIDE DEF d
    <3> QED BY <2>2, LimiterConstants
  <2>4. pending[r].sent <= stamp
    BY Zenon DEF LimitInv, RequestInv
  <2>5. Unit(b) \in Nat /\ Cap(b) \in Nat /\ Unit(b) <= Cap(b)
    BY <2>1, LimiterConstants DEF Unit, Cap
  <2>6. pending[r].sent >= d.at + wait + Skew /\ WaitInv(b)
    BY <2>1
  <2>7. CASE buckets[b] = NULL
    BY <2>5, <2>7 DEF TokensAt
  <2>8. CASE buckets[b] # NULL
    <3> DEFINE held == buckets[b].tokens
               last == buckets[b].last
    <3>1. held \in Nat /\ last \in Nat
      BY <2>1, <2>8 DEF LimitInv, LimiterTypeOK
    <3>2. last <= d.at + Skew /\ Refilled(b, held, wait) >= Unit(b)
      BY <2>6, <2>8, Zenon DEF WaitInv
    <3>3. TokensAt(b, stamp) = Refilled(b, held, stamp - last)
      BY <2>8, Zenon DEF TokensAt
    <3> HIDE DEF b, stamp, d, wait, held, last
    <3>4. wait <= stamp - last /\ stamp - last \in Int
      BY <2>1, <2>2, <2>3, <2>4, <2>6, <3>1, <3>2
    <3>5. Refilled(b, held, wait) <= Refilled(b, held, stamp - last)
      BY <2>1, <2>3, <3>1, <3>4, RefillMonotone
    <3>6. Rate(b) \in Nat
      BY <2>1, LimitFacts
    <3>7. Refilled(b, held, wait) \in Int /\ Refilled(b, held, stamp - last) \in Int
      BY <2>3, <2>5, <3>1, <3>4, <3>6 DEF Refilled, Min2, Max2
    <3>8. TokensAt(b, stamp) >= Unit(b)
      BY ONLY <2>5, <3>2, <3>3, <3>5, <3>7
    <3> QED BY <3>8 DEF b, stamp
  <2> QED BY <2>7, <2>8
<1> QED BY <1>1, <1>3, <1>4, LimitInvInit, LimitInvStep, PTL DEF LimiterSpec

-----------------------------------------------------------------------------

\* A run of the script never takes back a token it gave.
LEMMA RunAdmits ==
  ASSUME LimiterTypeOK, NEW b \in Buckets, NEW stamp, RunBucket(b, stamp)
  PROVE  \A c \in Buckets : /\ admitted'[c] \in Nat /\ admitted[c] <= admitted'[c]
                            /\ c = b /\ decision'[b].allowed => admitted'[c] = admitted[c] + 1
<1> DEFINE allowed == TokensAt(b, stamp) >= Unit(b)
<1>1. admitted' = [admitted EXCEPT ![b] = IF allowed THEN admitted[b] + 1 ELSE admitted[b]]
  BY Zenon DEF RunBucket
<1>2. decision'[b].allowed = allowed
  BY Zenon DEF RunBucket, Decision, LimiterTypeOK
<1> HIDE DEF allowed
<1> QED BY <1>1, <1>2 DEF LimiterTypeOK

\* With fail-open off, no request is let through without a token: neither an
\* unreachable Redis, nor a lost answer, nor a timeout lets one slip by.
THEOREM ClosedMeansMetered == LimiterSpec => []FailClosed
<1>1. LimiterInit => FailClosed
  BY DEF LimiterInit, FailClosed
<1>2. LimitInv /\ FailClosed /\ [LimiterNext]_limiterVars => FailClosed'
  <2> SUFFICES ASSUME LimitInv, FailClosed, [LimiterNext]_limiterVars, ~FailOpen,
                      NEW c \in Buckets
               PROVE  passed'[c] <= admitted'[c]
    BY Zenon DEF FailClosed
  <2>1. /\ LimiterTypeOK /\ passed[c] \in Nat /\ admitted[c] \in Nat
        /\ passed[c] <= admitted[c]
    BY Zenon DEF LimitInv, LimiterTypeOK, FailClosed
  <2>2. CASE UNCHANGED <<passed, admitted>>
    BY <2>1, <2>2, Zenon
  <2>3. ASSUME NEW r \in Requests, pending[r] # NULL,
               RunBucket(pending[r].bucket, pending[r].stamp)
        PROVE  /\ pending[r].bucket \in Buckets
               /\ admitted'[c] \in Nat /\ admitted[c] <= admitted'[c]
               /\ c = pending[r].bucket /\ decision'[c].allowed
                    => admitted'[c] = admitted[c] + 1
    <3>1. pending[r].bucket \in Buckets
      BY <2>1, <2>3, Zenon DEF LimiterTypeOK
    <3> QED BY <2>1, <2>3, <3>1, RunAdmits, Zenon
  <2>4. CASE \E r \in Requests : Check(r)
    <3>1. PICK r \in Requests : Check(r)
      BY <2>4, Zenon
    <3>2. /\ pending[r].bucket \in Buckets
          /\ admitted'[c] \in Nat /\ admitted[c] <= admitted'[c]
          /\ c = pending[r].bucket /\ decision'[c].allowed
               => admitted'[c] = admitted[c] + 1
      BY <2>3, <3>1, Zenon DEF Check
    <3>3. passed'[c] = passed[c]
            \/ /\ passed'[c] = passed[c] + 1 /\ c = pending[r].bucket
               /\ decision'[c].allowed
      <4> DEFINE b == pending[r].bucket
      <4>1. IF decision'[b].allowed THEN passed' = [passed EXCEPT ![b] = passed[b] + 1]
                                    ELSE passed' = passed
        BY <3>1, Zenon DEF Check, Pass
      <4>2. passed \in [Buckets -> Nat]
        BY <2>1, Zenon DEF LimiterTypeOK
      <4> HIDE DEF b
      <4> QED BY <4>1, <4>2, Zenon DEF b
    <3>4. CASE passed'[c] = passed[c]
      BY <2>1, <3>2, <3>4, CountsStay, Zenon
    <3>5. CASE passed'[c] = passed[c] + 1 /\ admitted'[c] = admitted[c] + 1
      <4>1. passed[c] + 1 <= admitted[c] + 1
        BY <2>1, CountsStay
      <4> QED BY <3>5, <4>1, Zenon
    <3> QED BY <3>2, <3>3, <3>4, <3>5, Zenon
  <2>5. CASE \E r \in Requests : CheckFails(r)
    BY <2>2, <2>5, Zenon DEF CheckFails, OnError
  <2>6. CASE \E r \in Requests : CheckAnswerLost(r)
    <3>1. PICK r \in Requests : CheckAnswerLost(r)
      BY <2>6, Zenon
    <3>2. passed' = passed /\ admitted'[c] \in Nat /\ admitted[c] <= admitted'[c]
      BY <2>3, <3>1, Zenon DEF CheckAnswerLost, OnError
    <3> QED BY <2>1, <3>2, CountsStay, Zenon
  <2>7. CASE \E r \in Requests : DropCheck(r)
    <3>1. PICK r \in Requests : DropCheck(r)
      BY <2>7, Zenon
    <3>2. CASE UNCHANGED <<admitted, passed>>
      BY <2>2, <3>2, Zenon
    <3>3. CASE RunBucket(pending[r].bucket, pending[r].stamp)
      <4>1. passed' = passed /\ admitted'[c] \in Nat /\ admitted[c] <= admitted'[c]
        BY <2>3, <3>1, <3>3, Zenon DEF DropCheck
      <4> QED BY <2>1, <4>1, CountsStay, Zenon
    <3> QED BY <3>1, <3>2, <3>3, Zenon DEF DropCheck
  <2> QED BY <2>2, <2>4, <2>5, <2>6, <2>7, Zenon
          DEF LimiterNext, limiterVars, Tick, AtBounds, Expire, PassUnlimited, SendCheck
<1> QED BY <1>1, <1>2, LimitInvInit, LimitInvStep, PTL DEF LimiterSpec

\* With fail-open off, what the limiters let through stays within the bucket's
\* bound (rate_limit_for over RateLimiter::check).
THEOREM RequestsAreMetered == LimiterSpec => []RequestsMetered
<1>1. AdmissionBound /\ FailClosed => RequestsMetered
  BY DEF RequestsMetered
<1> QED BY <1>1, LimitHolds, ClosedMeansMetered, PTL

-----------------------------------------------------------------------------
(* The layers of build_app around every handler.                           *)

\* The statuses the counters and the properties tell apart.
Refusal(s) == s \in {401, 408, 500}
Unauthorized(s) == s = 401
InternalError(s) == s = 500
TooMany(s) == s = 429
Unavailable(s) == s = 503

\* What a client is told was earned: no data without a key, no 500 for nothing.
Earned(a) ==
  /\ a.route \in Rest \union Graphql /\ ~a.key => Refusal(a.status)
  /\ InternalError(a.status) => a.failed

\* The envelope's statuses (ApiError::into_response).
LEMMA EnvelopeStatus ==
  /\ IntoResponse("not_found") = 404 /\ IntoResponse("bad_request") = 400
  /\ IntoResponse("invalid_cursor") = 400 /\ IntoResponse("unauthorized") = 401
  /\ IntoResponse("rate_limited") = 429 /\ IntoResponse("internal") = 500
  /\ IntoResponse("upstream_unavailable") = 503
BY Zenon DEF IntoResponse, Status

\* No handler answers 429, none behind a key answers 401, and none answers 500
\* unless something it depends on failed.
LEMMA HandlersReply ==
  ASSUME NEW route \in Routes
  PROVE  /\ \A reply \in Handles(route) :
              /\ reply \in Statuses /\ ~TooMany(reply) /\ ~InternalError(reply)
              /\ route \in Rest \union Graphql => ~Unauthorized(reply)
         /\ \A reply \in FailureReplies(route) :
              reply \in Statuses /\ ~TooMany(reply) /\ ~Unauthorized(reply)
<1>1. ASSUME NEW reply \in Handles(route)
      PROVE  /\ reply \in {200, 400, 401, 404, 503}
             /\ route \in Rest \union Graphql => reply # 401
  BY EnvelopeStatus DEF Handles, Errors, Extracted, Routes, Public, Rest, Graphql, AdminPublic, Admin
<1>2. ASSUME NEW reply \in FailureReplies(route)
      PROVE  reply \in {200, 500, 503}
  BY EnvelopeStatus DEF FailureReplies, Errors, Routes, Public, Rest, Graphql, AdminPublic, Admin
<1>. QED  BY <1>1, <1>2 DEF Statuses, TooMany, InternalError, Unauthorized

\* The layers of each route's router.
LEMMA LayersOf ==
  ASSUME NEW route \in Routes
  PROVE  /\ route \in Rest \union Graphql => Layers(route) = <<"auth", "limit">>
         /\ route \in Admin => Layers(route) = <<"session">>
         /\ route \notin Rest \union Graphql \union Admin => Layers(route) = <<>>
         /\ Layers(route) \in Seq({"auth", "limit", "session"})
<1>1. Rest \cap Admin = {} /\ Graphql \cap Admin = {}
  BY DEF Rest, Graphql, Admin
<1>2. /\ route \in Rest \union Graphql => Layers(route) = <<"auth", "limit">>
      /\ route \in Admin => Layers(route) = <<"session">>
      /\ route \notin Rest \union Graphql \union Admin => Layers(route) = <<>>
  BY <1>1 DEF Layers
<1>3. /\ <<"auth", "limit">> \in Seq({"auth", "limit", "session"})
      /\ <<"session">> \in Seq({"auth", "limit", "session"})
      /\ <<>> \in Seq({"auth", "limit", "session"})
  OBVIOUS
<1>. QED  BY <1>2, <1>3, Zenon

\* Where a request on its path is, when a layer or the handler has it.
LEMMA Whereabouts ==
  ASSUME NEW q \in Request, OnPath(q)
  PROVE  /\ q.ahead = <<>> => (q.key <=> q.route \in Rest \union Graphql)
         /\ q.ahead # <<>> /\ Head(q.ahead) = "auth" =>
               Tail(q.ahead) = <<"limit">> /\ ~q.key /\ q.route \in Rest \union Graphql
         /\ q.ahead # <<>> /\ Head(q.ahead) = "limit" =>
               q.key /\ Tail(q.ahead) = <<>> /\ q.route \in Rest \union Graphql
         /\ q.ahead # <<>> /\ Head(q.ahead) = "session" =>
               Tail(q.ahead) = <<>> /\ ~q.key /\ q.route \notin Rest \union Graphql
<1>0. q.route \in Routes
  BY DEF Request
<1>1. CASE q.ahead = Layers(q.route) /\ ~q.key
  <2>1. Rest \cap Admin = {} /\ Graphql \cap Admin = {}
    BY DEF Rest, Graphql, Admin
  <2>2. CASE q.route \in Rest \union Graphql
    <3>1. q.ahead = <<"auth", "limit">>
      BY <1>0, <1>1, <2>2, LayersOf, Zenon
    <3>. QED  BY <1>1, <2>2, <3>1
  <2>3. CASE q.route \in Admin
    <3>1. q.ahead = <<"session">>
      BY <1>0, <1>1, <2>3, LayersOf, Zenon
    <3>. QED  BY <1>1, <2>1, <2>3, <3>1
  <2>4. CASE q.route \notin Rest \union Graphql \union Admin
    <3>1. q.ahead = <<>>
      BY <1>0, <1>1, <2>4, LayersOf, Zenon
    <3>. QED  BY <1>1, <2>4, <3>1, Zenon
  <2>. QED  BY <2>2, <2>3, <2>4, Zenon
<1>2. CASE q.ahead = <<"limit">> /\ q.key /\ q.route \in Rest \union Graphql
  BY <1>2
<1>3. CASE q.ahead = <<>> /\ (q.key <=> q.route \in Rest \union Graphql)
  BY <1>3, Zenon
<1>. QED  BY <1>1, <1>2, <1>3, Zenon DEF OnPath

\* What the limiter counts of an answer with this status.
DecisionFits(s) ==
  \/ ~TooMany(s) /\ decisions' = decisions
  \/ TooMany(s) /\ decisions' = Incremented(decisions, "limited")
  \/ Unavailable(s) /\ decisions' = Incremented(decisions, "fail_closed")

\* What a step of a request does, seen from outside the layer that takes it: the
\* request goes on, ends outside the metrics layer, or is answered through it.
GoesOn(r) ==
  /\ \E q \in Request : OnPath(q) /\ request' = [request EXCEPT ![r] = q]
  /\ UNCHANGED <<answer, total, pushing, logged>>
  /\ decisions' \in {decisions, Incremented(decisions, "allowed"), Incremented(decisions, "fail_open")}

Answers(r) == \E a \in Answer : Earned(a) /\ answer' = [answer EXCEPT ![r] = a]

EndsOutside(r) ==
  /\ request' = [request EXCEPT ![r] = NULL]
  /\ answer' = answer \/ Answers(r)
  /\ UNCHANGED <<total, decisions, pushing, logged>>

EndsInside(r) ==
  /\ request' = [request EXCEPT ![r] = NULL]
  /\ Answers(r)
  /\ logged' = logged
  /\ \E s \in Statuses :
       /\ total' = Incremented(total, s)
       /\ pushing' = pushing \/ (pushing' = Incremented(pushing, s) /\ ~Unauthorized(s))
       /\ DecisionFits(s)

\* A layer that lets a request through, with or without the key attached.
LEMMA DescendGoesOn ==
  ASSUME NEW r \in Slots, NEW q \in Request, q.ahead # <<>>,
         \/ Tail(q.ahead) = <<"limit">> /\ q.key /\ q.route \in Rest \union Graphql
         \/ Tail(q.ahead) = <<>> /\ (q.key <=> q.route \in Rest \union Graphql),
         Descend(r, q),
         decisions' \in {decisions, Incremented(decisions, "allowed"), Incremented(decisions, "fail_open")}
  PROVE  GoesOn(r)
<1>. DEFINE n == [q EXCEPT !.ahead = Tail(q.ahead)]
<1>1. n \in Request /\ n.ahead = Tail(q.ahead) /\ n.key = q.key /\ n.route = q.route
  BY DEF Request
<1>2. OnPath(n)
  BY <1>1, Zenon DEF OnPath
<1>3. request' = [request EXCEPT ![r] = n] /\ UNCHANGED <<answer, total, pushing, logged>>
  BY Zenon DEF Descend
<1>. QED  BY <1>1, <1>2, <1>3, Zenon DEF GoesOn

\* What a client gets is an answer.
LEMMA AnsweredShape ==
  ASSUME NEW q \in Request, NEW reply \in Statuses, NEW failed \in BOOLEAN
  PROVE  LET a == Answered(q, reply, failed)
         IN  /\ a \in Answer /\ a.route = q.route /\ a.key = q.key
             /\ a.status = reply /\ a.failed = failed
BY Zenon DEF Answered, Answer, Request

\* An answer that goes up through the metrics layer.
LEMMA AscendEnds ==
  ASSUME NEW r \in Slots, NEW q \in Request, NEW reply \in Statuses,
         Ascend(r, q, reply),
         q.route \in Rest \union Graphql /\ ~q.key => Refusal(reply),
         Unauthorized(reply) => ~request[r].key,
         InternalError(reply) => q.failed,
         DecisionFits(reply)
  PROVE  EndsInside(r)
<1>1. /\ answer' = [answer EXCEPT ![r] = Answered(q, reply, q.failed)]
      /\ total' = Incremented(total, reply)
      /\ pushing' = IF request[r].key /\ manager THEN Incremented(pushing, reply) ELSE pushing
      /\ request' = [request EXCEPT ![r] = NULL]
      /\ logged' = logged
  BY Zenon DEF Ascend, Counted, Logging
<1>2. PICK a \in Answer : /\ a = Answered(q, reply, q.failed) /\ a.route = q.route
                          /\ a.key = q.key /\ a.status = reply /\ a.failed = q.failed
  <2>1. q.failed \in BOOLEAN
    BY DEF Request
  <2>. QED  BY <2>1, AnsweredShape, ZenonT(30)
<1>3. Earned(a) /\ answer' = [answer EXCEPT ![r] = a]
  BY <1>1, <1>2, Zenon DEF Earned
<1>4. pushing' = pushing \/ (pushing' = Incremented(pushing, reply) /\ ~Unauthorized(reply))
  BY <1>1, Zenon
<1>. QED  BY <1>1, <1>3, <1>4, Zenon DEF EndsInside, Answers

\* An answer of the timeout layer or the panic catcher.
LEMMA OutsideEnds ==
  ASSUME NEW r \in Slots, request[r] \in Request, NEW reply \in Statuses, Refusal(reply),
         Outside(r, reply)
  PROVE  EndsOutside(r)
<1>1. PICK a \in Answer : /\ a = Answered(request[r], reply, TRUE)
                          /\ a.status = reply /\ a.failed
  BY AnsweredShape, Zenon
<1>2. Earned(a)
  BY <1>1, Zenon DEF Earned
<1>. QED  BY <1>1, <1>2, Zenon DEF Outside, EndsOutside, Answers

\* What the statuses the layers answer with are to the counters and the properties.
LEMMA LayerReplies ==
  LET unauthorized == IntoResponse("unauthorized")
      internal == IntoResponse("internal")
      limited == IntoResponse("rate_limited")
      down == IntoResponse("upstream_unavailable")
  IN  /\ unauthorized \in Statuses /\ Refusal(unauthorized)
      /\ ~InternalError(unauthorized) /\ ~TooMany(unauthorized)
      /\ internal \in Statuses /\ Refusal(internal) /\ ~TooMany(internal) /\ ~Unauthorized(internal)
      /\ limited \in Statuses /\ ~InternalError(limited) /\ TooMany(limited) /\ ~Unauthorized(limited)
      /\ down \in Statuses /\ ~InternalError(down) /\ Unavailable(down) /\ ~Unauthorized(down)
      /\ TIMEOUT_STATUS \in Statuses /\ Refusal(TIMEOUT_STATUS)
BY EnvelopeStatus
   DEF Statuses, Refusal, InternalError, TooMany, Unavailable, Unauthorized, TIMEOUT_STATUS

\* A request with its key attached, or marked as failed.
LEMMA Marked ==
  ASSUME NEW q \in Request
  PROVE  /\ [q EXCEPT !.key = TRUE] \in Request
         /\ [q EXCEPT !.key = TRUE].ahead = q.ahead /\ [q EXCEPT !.key = TRUE].key
         /\ [q EXCEPT !.key = TRUE].route = q.route
         /\ [q EXCEPT !.failed = TRUE] \in Request
         /\ [q EXCEPT !.failed = TRUE].key = q.key
         /\ [q EXCEPT !.failed = TRUE].route = q.route
         /\ [q EXCEPT !.failed = TRUE].failed
BY Zenon DEF Request

\* auth::middleware and session::middleware attach, refuse or fail.
LEMMA AuthShape ==
  ASSUME NEW r \in Slots, request[r] \in Request, OnPath(request[r]),
         Authenticate(r) \/ ResolveSession(r)
  PROVE  GoesOn(r) \/ EndsInside(r)
<1>. DEFINE q == request[r]
            failing == [q EXCEPT !.failed = TRUE]
<1>1. /\ q.ahead # <<>> /\ Head(q.ahead) \in {"auth", "session"} /\ decisions' = decisions
      /\ Authenticate(r) => Head(q.ahead) = "auth"
      /\ ResolveSession(r) => Head(q.ahead) = "session"
  BY Zenon DEF Authenticate, ResolveSession, AtLayer
<1>2. /\ failing \in Request /\ failing.key = q.key /\ failing.route = q.route /\ failing.failed
  BY Marked, Zenon
<1>3. ~q.key
  BY <1>1, Whereabouts, Zenon
<1>4. CASE Ascend(r, q, IntoResponse("unauthorized"))
  BY <1>1, <1>3, <1>4, LayerReplies, AscendEnds, Zenon DEF DecisionFits
<1>5. CASE Ascend(r, failing, IntoResponse("internal"))
  <2>. HIDE DEF failing
  <2>. QED  BY <1>1, <1>2, <1>5, LayerReplies, AscendEnds, Zenon DEF DecisionFits
<1>6. CASE Authenticate(r) /\ Descend(r, [q EXCEPT !.key = TRUE])
  <2>. DEFINE n == [q EXCEPT !.key = TRUE]
  <2>1. n \in Request /\ n.ahead = q.ahead /\ n.key /\ n.route = q.route
    BY Marked, Zenon
  <2>2. Tail(n.ahead) = <<"limit">> /\ n.route \in Rest \union Graphql
    BY <1>1, <1>6, <2>1, Whereabouts, Zenon
  <2>3. Descend(r, n)
    BY <1>6, Zenon
  <2>. HIDE DEF n
  <2>. QED  BY <1>1, <2>1, <2>2, <2>3, DescendGoesOn, Zenon
<1>7. CASE ResolveSession(r) /\ Descend(r, q)
  <2>1. Tail(q.ahead) = <<>> /\ q.route \notin Rest \union Graphql
    BY <1>1, <1>7, Whereabouts, Zenon
  <2>. QED  BY <1>1, <1>3, <1>7, <2>1, DescendGoesOn, Zenon
<1>. QED  BY <1>4, <1>5, <1>6, <1>7, Zenon DEF Authenticate, ResolveSession

\* rate_limit_for finds the key attached, and meters, lets through or refuses.
LEMMA LimitShape ==
  ASSUME NEW r \in Slots, request[r] \in Request, OnPath(request[r]), RateLimit(r)
  PROVE  GoesOn(r) \/ EndsInside(r)
<1>. DEFINE q == request[r]
            failing == [q EXCEPT !.failed = TRUE]
<1>1. q.ahead # <<>> /\ q.key /\ Tail(q.ahead) = <<>> /\ q.route \in Rest \union Graphql
  BY Whereabouts, Zenon DEF RateLimit, AtLayer
<1>2. LimitDecides(r) \/ LimitUnreachable(r)
  BY <1>1, Zenon DEF RateLimit
<1>3. /\ failing \in Request /\ failing.key = q.key /\ failing.route = q.route
  BY Marked, Zenon
<1>4. ASSUME NEW o \in {"allowed", "fail_open"}, Observe(o), Descend(r, q)
      PROVE  GoesOn(r)
  BY <1>1, <1>4, DescendGoesOn, Zenon DEF Observe
<1>5. CASE Observe("limited") /\ Ascend(r, q, IntoResponse("rate_limited"))
  BY <1>1, <1>5, LayerReplies, AscendEnds, Zenon DEF Observe, DecisionFits
<1>6. CASE Observe("fail_closed") /\ Ascend(r, failing, IntoResponse("upstream_unavailable"))
  <2>1. failing.key
    BY <1>1, <1>3, Zenon
  <2>. HIDE DEF failing
  <2>. QED  BY <1>3, <1>6, <2>1, LayerReplies, AscendEnds, Zenon DEF Observe, DecisionFits
<1>. QED  BY <1>2, <1>4, <1>5, <1>6, Zenon DEF LimitDecides, LimitUnreachable

\* A handler is reached with the key its router asks for.
LEMMA HandlerShape ==
  ASSUME NEW r \in Slots, request[r] \in Request, OnPath(request[r]), Handle(r)
  PROVE  EndsInside(r)
<1>. DEFINE q == request[r]
            failing == [q EXCEPT !.failed = TRUE]
<1>1. q.route \in Routes /\ (q.key <=> q.route \in Rest \union Graphql) /\ decisions' = decisions
  BY Whereabouts DEF Handle, AtHandler, Request
<1>2. /\ failing \in Request /\ failing.key = q.key /\ failing.route = q.route /\ failing.failed
  BY Marked, Zenon
<1>3. ASSUME NEW reply \in Handles(q.route), Ascend(r, q, reply)
      PROVE  EndsInside(r)
  BY <1>1, <1>3, HandlersReply, AscendEnds, Zenon DEF DecisionFits
<1>4. ASSUME NEW reply \in FailureReplies(q.route), Ascend(r, failing, reply)
      PROVE  EndsInside(r)
  <2>. HIDE DEF failing
  <2>. QED  BY <1>1, <1>2, <1>4, HandlersReply, AscendEnds, Zenon DEF DecisionFits
<1>. QED  BY <1>3, <1>4, Zenon DEF Handle

\* Every step of a request has one of the three shapes.
LEMMA StepShape ==
  ASSUME NEW r \in Slots, request[r] \in Request \union {NULL}, InFlight(r) => OnPath(request[r]), Step(r)
  PROVE  InFlight(r) /\ (GoesOn(r) \/ EndsOutside(r) \/ EndsInside(r))
<1>1. InFlight(r)
  BY Zenon DEF Step, Authenticate, ResolveSession, RateLimit, Handle, Timeout, TimeoutCovers, Panic,
               Disconnect, AtLayer, AtHandler
<1>2. request[r] \in Request /\ OnPath(request[r])
  BY <1>1, Zenon DEF InFlight
<1>3. CASE Timeout(r)
  <2>1. PICK reply \in Statuses : Refusal(reply) /\ Outside(r, reply)
    BY <1>3, LayerReplies, Zenon DEF Timeout
  <2>. QED  BY <1>1, <1>2, <2>1, OutsideEnds, Zenon
<1>4. CASE Panic(r)
  BY <1>2, <1>4, LayerReplies, OutsideEnds, Zenon DEF Panic
<1>5. CASE Disconnect(r)
  BY <1>1, <1>5, Zenon DEF Disconnect, EndsOutside
<1>. QED  BY <1>1, <1>2, <1>3, <1>4, <1>5, AuthShape, LimitShape, HandlerShape, Zenon DEF Step

\* A request at the handler of data has its key.
LEMMA HandlerHasKey ==
  ASSUME NEW q \in Request, OnPath(q), q.ahead = <<>>, q.route \in DataRoutes
  PROVE  q.key
<1>1. q.route \in Rest \union Graphql
  BY Zenon DEF DataRoutes, Rest, Graphql
<1>. QED  BY <1>1, Whereabouts, Zenon

\* The slots and the answers after a step make the answers earned.
LEMMA EarnedNext ==
  ASSUME \A r \in Slots : request'[r] # NULL => request'[r] \in Request /\ OnPath(request'[r]),
         \A r \in Slots : answer'[r] # NULL => Earned(answer'[r])
  PROVE  AnswersAreEarned'
<1>1. ASSUME NEW r \in Slots, request'[r] # NULL, request'[r].ahead = <<>>, request'[r].route \in DataRoutes
      PROVE  request'[r].key
  <2>1. PICK q \in Request : q = request'[r] /\ OnPath(q)
    BY <1>1, Zenon
  <2>. QED  BY <1>1, <2>1, HandlerHasKey, Zenon
<1>2. \A r \in Slots : (request'[r] # NULL /\ request'[r].ahead = <<>>) /\ request'[r].route \in DataRoutes
                          => request'[r].key
  BY <1>1, Zenon
<1>3. \A r \in Slots : answer'[r] # NULL =>
        /\ answer'[r].route \in Rest \union Graphql /\ ~answer'[r].key => Refusal(answer'[r].status)
        /\ InternalError(answer'[r].status) => answer'[r].failed
  BY Zenon DEF Earned
<1>4. InternalMeansFailure'
  BY <1>3 DEF InternalMeansFailure, Sending, InternalError
<1>5. DataNeedsKey'
  BY <1>2, <1>3 DEF DataNeedsKey, AtHandler, InFlight, Sending, Refusal
<1>. QED  BY <1>4, <1>5, Zenon DEF AnswersAreEarned

\* The answers so far were earned.
LEMMA EarnedNow ==
  ASSUME AnswersAreEarned, NEW r \in Slots, answer[r] # NULL
  PROVE  Earned(answer[r])
<1>1. answer[r].route \in Rest \union Graphql /\ ~answer[r].key => Refusal(answer[r].status)
  BY DEF AnswersAreEarned, DataNeedsKey, Refusal, Sending
<1>2. InternalError(answer[r].status) => answer[r].failed
  BY DEF AnswersAreEarned, InternalMeansFailure, InternalError, Sending
<1>. QED  BY <1>1, <1>2, Zenon DEF Earned

\* The slots after one of them changed.
LEMMA SlotChanges ==
  ASSUME PathInv, NEW r \in Slots, NEW q \in Request \union {NULL}, q # NULL => OnPath(q),
         request' = [request EXCEPT ![r] = q]
  PROVE  /\ request' \in [Slots -> Request \union {NULL}]
         /\ \A s \in Slots : request'[s] # NULL => request'[s] \in Request /\ OnPath(request'[s])
<1>1. request \in [Slots -> Request \union {NULL}] /\ (\A s \in Slots : InFlight(s) => OnPath(request[s]))
  BY Zenon DEF PathInv, PathTypes
<1>2. request' \in [Slots -> Request \union {NULL}]
  BY <1>1, Zenon
<1>3. ASSUME NEW s \in Slots, request'[s] # NULL
      PROVE  request'[s] \in Request /\ OnPath(request'[s])
  <2>1. CASE s = r
    BY <1>1, <1>3, <2>1, Zenon
  <2>2. CASE s # r
    BY <1>1, <1>3, <2>2, Zenon DEF InFlight
  <2>. QED  BY <2>1, <2>2, Zenon
<1>. QED  BY <1>2, <1>3, Zenon

\* The answers after one of them was made, or taken, or none.
LEMMA AnswerChanges ==
  ASSUME PathInv, NEW r \in Slots,
         answer' = answer \/ Answers(r) \/ answer' = [answer EXCEPT ![r] = NULL]
  PROVE  /\ answer' \in [Slots -> Answer \union {NULL}]
         /\ \A s \in Slots : answer'[s] # NULL => Earned(answer'[s])
<1>1. /\ answer \in [Slots -> Answer \union {NULL}]
      /\ \A s \in Slots : answer[s] # NULL => Earned(answer[s])
  BY EarnedNow, Zenon DEF PathInv, PathTypes
<1>2. CASE answer' = answer
  BY <1>1, <1>2, Zenon
<1>3. CASE Answers(r)
  <2>1. PICK a \in Answer : Earned(a) /\ answer' = [answer EXCEPT ![r] = a]
    BY <1>3, Zenon DEF Answers
  <2>. QED  BY <1>1, <2>1, Zenon
<1>4. CASE answer' = [answer EXCEPT ![r] = NULL]
  BY <1>1, <1>4, Zenon
<1>. QED  BY <1>2, <1>3, <1>4, Zenon

\* The statuses and outcomes the counters are compared at.
LEMMA CountedNames ==
  /\ 401 \in Statuses /\ 429 \in Statuses /\ 503 \in Statuses
  /\ "allowed" \in Outcomes /\ "limited" \in Outcomes /\ "fail_open" \in Outcomes /\ "fail_closed" \in Outcomes
BY DEF Statuses, Outcomes

\* A request that goes on is counted by the limiter at most.
LEMMA GoingOnKeepsPath ==
  ASSUME PathInv, NEW r \in Slots, GoesOn(r), UNCHANGED config
  PROVE  PathInv'
<1>1. PICK q \in Request : OnPath(q) /\ request' = [request EXCEPT ![r] = q]
  BY Zenon DEF GoesOn
<1>2. /\ request' \in [Slots -> Request \union {NULL}]
      /\ \A s \in Slots : request'[s] # NULL => request'[s] \in Request /\ OnPath(request'[s])
  BY <1>1, SlotChanges, Zenon
<1>3. /\ UNCHANGED <<answer, total, pushing, logged, manager, failOpen>>
      /\ decisions \in [Outcomes -> Nat]
  BY Zenon DEF GoesOn, config, PathInv, PathTypes
<1>4. AnswersAreEarned'
  BY <1>2, <1>3, AnswerChanges, EarnedNext, Zenon
<1>5. /\ decisions' \in [Outcomes -> Nat]
      /\ decisions'["limited"] = decisions["limited"]
      /\ decisions'["fail_closed"] = decisions["fail_closed"]
  BY <1>3, CountedNames DEF GoesOn, Incremented
<1>6. CountersAgree'
  BY <1>3, <1>5 DEF PathInv, CountersAgree
<1>. QED  BY <1>2, <1>3, <1>4, <1>5, <1>6, Zenon DEF PathInv, PathTypes, InFlight

\* The timeout layer, the panic catcher and a client that leaves count nothing.
LEMMA EndingOutsideKeepsPath ==
  ASSUME PathInv, NEW r \in Slots, EndsOutside(r), UNCHANGED config
  PROVE  PathInv'
<1>1. /\ request' \in [Slots -> Request \union {NULL}]
      /\ \A s \in Slots : request'[s] # NULL => request'[s] \in Request /\ OnPath(request'[s])
  BY SlotChanges, Zenon DEF EndsOutside
<1>2. UNCHANGED <<total, pushing, logged, decisions, manager, failOpen>>
  BY Zenon DEF EndsOutside, config
<1>3. /\ answer' \in [Slots -> Answer \union {NULL}]
      /\ \A s \in Slots : answer'[s] # NULL => Earned(answer'[s])
  BY AnswerChanges, Zenon DEF EndsOutside
<1>4. AnswersAreEarned'
  BY <1>1, <1>3, EarnedNext, Zenon
<1>5. CountersAgree'
  BY <1>2 DEF PathInv, CountersAgree
<1>. QED  BY <1>1, <1>2, <1>3, <1>4, <1>5, Zenon DEF PathInv, PathTypes, InFlight

\* An answer that passes the metrics layer is counted there and, with a key, sent on
\* to the log.
LEMMA EndingInsideKeepsPath ==
  ASSUME PathInv, NEW r \in Slots, EndsInside(r), UNCHANGED config
  PROVE  PathInv'
<1>1. /\ request' \in [Slots -> Request \union {NULL}]
      /\ \A s \in Slots : request'[s] # NULL => request'[s] \in Request /\ OnPath(request'[s])
  BY SlotChanges, Zenon DEF EndsInside
<1>2. /\ UNCHANGED <<manager, failOpen, logged>> /\ total \in [Statuses -> Nat]
      /\ pushing \in [Statuses -> Nat] /\ logged \in [Statuses -> Nat]
      /\ decisions \in [Outcomes -> Nat] /\ manager \in BOOLEAN
  BY Zenon DEF EndsInside, config, PathInv, PathTypes
<1>3. /\ answer' \in [Slots -> Answer \union {NULL}]
      /\ \A s \in Slots : answer'[s] # NULL => Earned(answer'[s])
  BY AnswerChanges, Zenon DEF EndsInside
<1>4. AnswersAreEarned'
  BY <1>1, <1>3, EarnedNext, Zenon
<1>5. PICK s \in Statuses :
        /\ total' = Incremented(total, s)
        /\ pushing' = pushing \/ (pushing' = Incremented(pushing, s) /\ ~Unauthorized(s))
        /\ DecisionFits(s)
  BY Zenon DEF EndsInside
<1>6. /\ total' \in [Statuses -> Nat] /\ total'[s] = total[s] + 1
      /\ \A t \in Statuses : t # s => total'[t] = total[t]
  BY <1>2, <1>5 DEF Incremented
<1>7. /\ pushing' \in [Statuses -> Nat]
      /\ \A t \in Statuses : t # s => pushing'[t] = pushing[t]
      /\ pushing'[s] = pushing[s] \/ (pushing'[s] = pushing[s] + 1 /\ s # 401)
  BY <1>2, <1>5 DEF Incremented, Unauthorized
<1>8. \/ s # 429 /\ decisions' = decisions
      \/ /\ s = 429 /\ decisions' \in [Outcomes -> Nat]
         /\ decisions'["limited"] = decisions["limited"] + 1
         /\ decisions'["fail_closed"] = decisions["fail_closed"]
      \/ /\ s = 503 /\ decisions' \in [Outcomes -> Nat]
         /\ decisions'["limited"] = decisions["limited"]
         /\ decisions'["fail_closed"] = decisions["fail_closed"] + 1
  <2>1. /\ Incremented(decisions, "limited") \in [Outcomes -> Nat]
        /\ Incremented(decisions, "limited")["limited"] = decisions["limited"] + 1
        /\ Incremented(decisions, "limited")["fail_closed"] = decisions["fail_closed"]
        /\ Incremented(decisions, "fail_closed") \in [Outcomes -> Nat]
        /\ Incremented(decisions, "fail_closed")["limited"] = decisions["limited"]
        /\ Incremented(decisions, "fail_closed")["fail_closed"] = decisions["fail_closed"] + 1
    BY <1>2, CountedNames DEF Incremented
  <2>2. CASE ~TooMany(s) /\ decisions' = decisions
    BY <2>2, Zenon DEF TooMany
  <2>3. CASE TooMany(s) /\ decisions' = Incremented(decisions, "limited")
    BY <2>1, <2>3, Zenon DEF TooMany
  <2>4. CASE Unavailable(s) /\ decisions' = Incremented(decisions, "fail_closed")
    BY <2>1, <2>4, Zenon DEF Unavailable
  <2>. QED  BY <1>5, <2>2, <2>3, <2>4, Zenon DEF DecisionFits
<1>9. CountersAgree'
  <2>1. \A t \in Statuses : logged[t] + pushing'[t] <= total'[t]
    BY <1>2, <1>6, <1>7 DEF PathInv, CountersAgree
  <2>2. total'[429] = decisions'["limited"] /\ decisions'["fail_closed"] <= total'[503]
    BY <1>2, <1>6, <1>8, CountedNames DEF PathInv, CountersAgree
  <2>3. logged[401] + pushing'[401] = 0
    BY <1>2, <1>7, CountedNames DEF PathInv, CountersAgree
  <2>. QED  BY <1>2, <2>1, <2>2, <2>3 DEF CountersAgree
<1>10. decisions' \in [Outcomes -> Nat]
  BY <1>2, <1>8, Zenon
<1>. QED  BY <1>1, <1>2, <1>3, <1>4, <1>6, <1>7, <1>9, <1>10, Zenon DEF PathInv, PathTypes, InFlight

\* Whatever a request does next keeps the invariant of the path.
LEMMA StepKeepsPath ==
  ASSUME PathInv, NEW r \in Slots, Step(r), UNCHANGED config
  PROVE  PathInv'
<1>1. request[r] \in Request \union {NULL} /\ (InFlight(r) => OnPath(request[r]))
  BY Zenon DEF PathInv, PathTypes
<1>. QED  BY <1>1, StepShape, GoingOnKeepsPath, EndingOutsideKeepsPath, EndingInsideKeepsPath, Zenon

\* A request comes in with all its router's layers ahead.
LEMMA ReceiveKeepsPath ==
  ASSUME PathInv, NEW r \in Slots, NEW route \in Routes, Receive(r, route), UNCHANGED config
  PROVE  PathInv'
<1>. DEFINE q == [route |-> route, ahead |-> Layers(route), key |-> FALSE, failed |-> FALSE]
<1>1. q \in Request /\ OnPath(q)
  BY LayersOf, Zenon DEF Request, OnPath
<1>2. request' = [request EXCEPT ![r] = q]
      /\ UNCHANGED <<answer, total, decisions, pushing, logged, manager, failOpen>>
  BY Zenon DEF Receive, config
<1>. HIDE DEF q
<1>3. GoesOn(r)
  BY <1>1, <1>2, Zenon DEF GoesOn
<1>. QED  BY <1>3, GoingOnKeepsPath, Zenon

\* A step that takes an answer, or none, and leaves the requests and the counts of
\* the layers alone, keeps the path's invariant; entries on their way to the log may
\* get there or be lost.
LEMMA PathStays ==
  ASSUME PathInv, UNCHANGED <<request, total, decisions, failOpen>>, manager' \in BOOLEAN,
         answer' = answer \/ (\E r \in Slots : answer' = [answer EXCEPT ![r] = NULL]),
         pushing' \in [Statuses -> Nat], logged' \in [Statuses -> Nat],
         \A s \in Statuses : logged'[s] + pushing'[s] <= logged[s] + pushing[s]
  PROVE  PathInv'
<1>1. /\ answer' \in [Slots -> Answer \union {NULL}]
      /\ \A s \in Slots : answer'[s] # NULL => Earned(answer'[s])
  <2>1. CASE answer' = answer
    BY <2>1, EarnedNow, Zenon DEF PathInv, PathTypes
  <2>2. CASE \E r \in Slots : answer' = [answer EXCEPT ![r] = NULL]
    BY <2>2, AnswerChanges, Zenon
  <2>. QED  BY <2>1, <2>2, Zenon
<1>2. PathTypes'
  BY <1>1, Zenon DEF PathInv, PathTypes
<1>3. \A s \in Slots : request'[s] # NULL => request'[s] \in Request /\ OnPath(request'[s])
  BY Zenon DEF PathInv, PathTypes, InFlight
<1>4. AnswersAreEarned'
  BY <1>1, <1>3, EarnedNext, Zenon
<1>5. CountersAgree'
  <2>1. /\ \A s \in Statuses : logged[s] + pushing[s] <= total[s]
        /\ logged[401] + pushing[401] = 0
    BY Zenon DEF PathInv, CountersAgree
  <2>2. /\ total \in [Statuses -> Nat] /\ pushing \in [Statuses -> Nat] /\ logged \in [Statuses -> Nat]
    BY Zenon DEF PathInv, PathTypes
  <2>3. \A s \in Statuses : logged'[s] + pushing'[s] <= total[s]
    BY <2>1, <2>2
  <2>4. logged'[401] + pushing'[401] = 0
    BY <2>1, <2>2, CountedNames
  <2>. QED  BY <2>3, <2>4 DEF PathInv, CountersAgree
<1>. QED  BY <1>2, <1>3, <1>4, <1>5, Zenon DEF PathInv, InFlight

\* An entry that gets to the log, or is lost.
LEMMA PushKeepsPath ==
  ASSUME PathInv, NEW s \in Statuses, PushEntry(s), UNCHANGED config
  PROVE  PathInv'
<1>1. /\ pushing \in [Statuses -> Nat] /\ logged \in [Statuses -> Nat] /\ manager \in BOOLEAN
      /\ pushing[s] > 0 /\ pushing' = [pushing EXCEPT ![s] = pushing[s] - 1]
      /\ logged' = logged \/ logged' = [logged EXCEPT ![s] = logged[s] + 1]
      /\ UNCHANGED <<request, answer, total, decisions, manager, failOpen>>
  BY Zenon DEF PathInv, PathTypes, PushEntry, Incremented, config
<1>2. /\ pushing' \in [Statuses -> Nat] /\ logged' \in [Statuses -> Nat]
      /\ \A t \in Statuses : logged'[t] + pushing'[t] <= logged[t] + pushing[t]
  BY <1>1
<1>. QED  BY <1>1, <1>2, PathStays, Zenon

-----------------------------------------------------------------------------
(* main starts, serves and stops.                                          *)

Holds(s, t) == \E i \in DOMAIN s : s[i] = t

\* What is in one of two lists of handles is in both together.
LEMMA HoldsConcat ==
  ASSUME NEW s \in Seq(Tasks), NEW u \in Seq(Tasks), NEW t
  PROVE  /\ s \o u \in Seq(Tasks)
         /\ Holds(s, t) \/ Holds(u, t) => Holds(s \o u, t)
<1>1. /\ s \o u \in Seq(Tasks) /\ Len(s \o u) = Len(s) + Len(u)
      /\ \A i \in 1 .. Len(s) : (s \o u)[i] = s[i]
      /\ \A i \in 1 .. Len(u) : (s \o u)[Len(s) + i] = u[i]
  OBVIOUS
<1>2. DOMAIN s = 1 .. Len(s) /\ DOMAIN u = 1 .. Len(u) /\ DOMAIN (s \o u) = 1 .. Len(s \o u)
  BY <1>1
<1>3. ASSUME NEW i \in 1 .. Len(s), s[i] = t
      PROVE  Holds(s \o u, t)
  BY <1>1, <1>2, <1>3 DEF Holds
<1>4. ASSUME NEW i \in 1 .. Len(u), u[i] = t
      PROVE  Holds(s \o u, t)
  <2>1. Len(s) + i \in 1 .. Len(s \o u) /\ (s \o u)[Len(s) + i] = t
    BY <1>1, <1>4
  <2>. QED  BY <1>2, <2>1 DEF Holds
<1>. QED  BY <1>1, <1>2, <1>3, <1>4, Zenon DEF Holds

\* A task that was spawned has a handle.
LEMMA HandleHolds ==
  ASSUME NEW t \in Tasks
  PROVE  HandleOf(t) \in Seq(Tasks) /\ (task[t] # "none" => Holds(HandleOf(t), t))
BY DEF HandleOf, Holds

\* main awaits every task it spawned.
LEMMA JoinsAll ==
  /\ JoinHandles \in Seq(Tasks)
  /\ \A t \in Tasks : task[t] # "none" => Holds(JoinHandles, t)
<1>1. PICK a \in Seq(Tasks) : a = HandleOf("refresh") /\ (task["refresh"] # "none" => Holds(a, "refresh"))
  BY HandleHolds, Zenon DEF Tasks
<1>2. PICK b \in Seq(Tasks) : b = HandleOf("metrics") /\ (task["metrics"] # "none" => Holds(b, "metrics"))
  BY HandleHolds, Zenon DEF Tasks
<1>3. PICK c \in Seq(Tasks) : c = HandleOf("listener") /\ (task["listener"] # "none" => Holds(c, "listener"))
  BY HandleHolds, Zenon DEF Tasks
<1>4. PICK d \in Seq(Tasks) : d = HandleOf("webhooks") /\ (task["webhooks"] # "none" => Holds(d, "webhooks"))
  BY HandleHolds, Zenon DEF Tasks
<1>5. PICK ab \in Seq(Tasks) : ab = a \o b /\ \A t : Holds(a, t) \/ Holds(b, t) => Holds(ab, t)
  BY HoldsConcat, Zenon
<1>6. PICK abc \in Seq(Tasks) : abc = ab \o c /\ \A t : Holds(ab, t) \/ Holds(c, t) => Holds(abc, t)
  BY HoldsConcat, Zenon
<1>7. PICK all \in Seq(Tasks) : all = abc \o d /\ \A t : Holds(abc, t) \/ Holds(d, t) => Holds(all, t)
  BY HoldsConcat, Zenon
<1>8. JoinHandles = all
  BY <1>1, <1>2, <1>3, <1>4, <1>5, <1>6, <1>7, Zenon DEF JoinHandles
<1>9. \A t \in Tasks : task[t] # "none" => Holds(all, t)
  BY <1>1, <1>2, <1>3, <1>4, <1>5, <1>6, <1>7, Zenon DEF Tasks
<1>. QED  BY <1>8, <1>9, Zenon

\* Taking the first handle off leaves the others.
LEMMA HoldsTail ==
  ASSUME NEW s \in Seq(Tasks), s # <<>>, NEW t, t # Head(s), Holds(s, t)
  PROVE  Holds(Tail(s), t)
<1>1. PICK i \in 1 .. Len(s) : s[i] = t
  BY DEF Holds
<1>2. i # 1 /\ Len(s) > 0
  BY <1>1
<1>3. i - 1 \in 1 .. Len(Tail(s)) /\ Tail(s)[i - 1] = t /\ DOMAIN Tail(s) = 1 .. Len(Tail(s))
  BY <1>1, <1>2
<1>. QED  BY <1>3, Zenon DEF Holds

\* Nothing is in flight, nothing is counted and nothing cancelled before main serves.
LEMMA InvInit == Init => ProcessInv
<1>. SUFFICES ASSUME Init PROVE ProcessInv
  OBVIOUS
<1>1. PathTypes
  BY Zenon DEF Init, RequestInit, PathTypes
<1>2. \A r \in Slots : ~InFlight(r) /\ ~Sending(r)
  BY Zenon DEF Init, RequestInit, InFlight, Sending
<1>3. AnswersAreEarned
  BY <1>2 DEF AnswersAreEarned, DataNeedsKey, InternalMeansFailure, AtHandler
<1>4. CountersAgree
  BY CountedNames DEF Init, RequestInit, CountersAgree
<1>5. /\ task \in [Tasks -> TaskStates] /\ joining \in Seq(Tasks)
      /\ ~cancelled /\ pc = "connect"
  BY DEF Init, TaskStates
<1>. QED  BY <1>1, <1>2, <1>3, <1>4, <1>5, Zenon DEF ProcessInv, PathInv, StopInv

\* A step of main that touches neither requests nor counters keeps the path's
\* invariant.
LEMMA PathIdle ==
  ASSUME PathInv, UNCHANGED <<requestVars, failOpen>>, manager' \in BOOLEAN
  PROVE  PathInv'
<1>1. /\ UNCHANGED <<request, answer, total, decisions, pushing, logged>>
      /\ pushing \in [Statuses -> Nat] /\ logged \in [Statuses -> Nat]
  BY Zenon DEF requestVars, PathInv, PathTypes
<1>2. \A s \in Statuses : logged'[s] + pushing'[s] <= logged[s] + pushing[s]
  BY <1>1
<1>. QED  BY <1>1, <1>2, PathStays, Zenon

\* Startup spawns tasks and cancels none.
LEMMA StartKeepsInv ==
  ASSUME ProcessInv, ConnectPostgres \/ LeaveEarly \/ BuildRedisManager \/ Bind \/ BindFails \/ Signal
  PROVE  ProcessInv'
<1>1. pc \in {"connect", "redis", "bind", "serve"} /\ UNCHANGED <<requestVars, joining, cancelled, failOpen>>
  BY Zenon DEF ConnectPostgres, LeaveEarly, BuildRedisManager, Bind, BindFails, Signal, Exit, config
<1>2. /\ manager' \in BOOLEAN
      /\ pc' \in {"redis", "bind", "serve", "exited"}
      /\ pc = "serve" => pc' = "serve"
  BY Zenon DEF ConnectPostgres, LeaveEarly, BuildRedisManager, Bind, BindFails, Signal, Exit, config,
         ProcessInv, PathInv, PathTypes
<1>3. task' \in [Tasks -> TaskStates]
  <2>1. "none" \in TaskStates /\ "running" \in TaskStates /\ task \in [Tasks -> TaskStates]
    BY DEF TaskStates, ProcessInv, StopInv
  <2>2. task' = task \/ task' = [t \in Tasks |-> "none"] \/ \E ts : Spawn(ts)
    BY Zenon DEF ConnectPostgres, LeaveEarly, BuildRedisManager, Bind, BindFails, Signal, Exit
  <2>. QED  BY <2>1, <2>2, Zenon DEF Spawn
<1>4. PathInv'
  BY <1>1, <1>2, PathIdle, Zenon DEF ProcessInv
<1>5. UNCHANGED <<request, answer>>
  BY <1>1, Zenon DEF requestVars
<1>6. /\ joining \in Seq(Tasks) /\ ~cancelled
      /\ \A r \in Slots : InFlight(r) \/ Sending(r) => pc = "serve"
  BY <1>1, Zenon DEF ProcessInv, StopInv
<1>7. StopInv'
  BY <1>1, <1>2, <1>3, <1>5, <1>6, Zenon DEF StopInv, InFlight, Sending
<1>. QED  BY <1>4, <1>7, Zenon DEF ProcessInv

\* Requests come and go while main serves.
LEMMA ServingKeepsInv ==
  ASSUME ProcessInv, NEW r \in Slots, Accept(r) \/ Serve(r) \/ Finish(r)
  PROVE  ProcessInv'
<1>1. UNCHANGED <<config, manager, failOpen, pc, task, joining, signalled, cancelled>>
  BY Zenon DEF Accept, Serve, Finish, mainVars, config
<1>2. PathInv'
  <2>1. CASE Accept(r) \/ Serve(r)
    BY <1>1, <2>1, StepKeepsPath, ReceiveKeepsPath, Zenon DEF ProcessInv, Accept, Serve
  <2>2. CASE Finish(r)
    <3>1. /\ answer' = [answer EXCEPT ![r] = NULL]
          /\ UNCHANGED <<request, total, decisions, pushing, logged>>
          /\ pushing \in [Statuses -> Nat] /\ logged \in [Statuses -> Nat] /\ manager \in BOOLEAN
      BY <2>2, Zenon DEF Finish, TakeAnswer, ProcessInv, PathInv, PathTypes
    <3>2. \A s \in Statuses : logged'[s] + pushing'[s] <= logged[s] + pushing[s]
      BY <3>1
    <3>. QED  BY <1>1, <3>1, <3>2, PathStays, Zenon DEF ProcessInv
  <2>. QED  BY <2>1, <2>2, Zenon
<1>3. request[r] \in Request \union {NULL} /\ (InFlight(r) => OnPath(request[r]))
  BY Zenon DEF ProcessInv, PathInv, PathTypes
<1>4. pc = "serve"
  BY <1>3, StepShape, Zenon DEF Accept, Serve, Finish, TakeAnswer, ProcessInv, StopInv
<1>5. StopInv'
  BY <1>1, <1>4, Zenon DEF ProcessInv, StopInv, Running
<1>. QED  BY <1>2, <1>5, Zenon DEF ProcessInv

\* A detached push ends, at any time before main returns.
LEMMA PushKeepsInv ==
  ASSUME ProcessInv, NEW s \in Statuses, Push(s)
  PROVE  ProcessInv'
<1>1. UNCHANGED <<config, pc, task, joining, cancelled, request, answer>> /\ PushEntry(s)
  BY Zenon DEF Push, PushEntry, mainVars
<1>2. PathInv'
  BY <1>1, PushKeepsPath, Zenon DEF ProcessInv
<1>3. StopInv'
  BY <1>1, Zenon DEF ProcessInv, StopInv, Running, InFlight, Sending
<1>. QED  BY <1>2, <1>3, Zenon DEF ProcessInv

\* A task goes its way after the cancellation; it does not start again once ended.
LEMMA TaskKeepsInv ==
  ASSUME ProcessInv, NEW t \in Tasks, TaskStep(t)
  PROVE  ProcessInv'
<1>1. PICK from \in {"waiting", "away"}, to \in {"waiting", "away", "ended"} : TaskMoves(t, from, to)
  BY Zenon DEF TaskStep, TaskLeaves, TaskReturns, TaskStops, TaskPanics
<1>2. /\ task[t] = from /\ task' = [task EXCEPT ![t] = to]
      /\ UNCHANGED <<manager, failOpen, requestVars, request, answer, pc, joining, cancelled>>
  BY <1>1, Zenon DEF TaskMoves, config, requestVars
<1>3. manager \in BOOLEAN /\ PathInv /\ StopInv
  BY Zenon DEF ProcessInv, PathInv, PathTypes
<1>4. PathInv'
  BY <1>2, <1>3, PathIdle, Zenon
<1>5. /\ task' \in [Tasks -> TaskStates]
      /\ \A u \in Tasks : Running(u)' => Running(u)
  <2>1. task \in [Tasks -> TaskStates] /\ to \in TaskStates /\ Running(t)
    BY <1>2, <1>3 DEF StopInv, TaskStates, Running
  <2>2. \A u \in Tasks : u # t => task'[u] = task[u]
    BY <1>2, <2>1, Zenon
  <2>. QED  BY <1>2, <2>1, <2>2, Zenon DEF Running
<1>6. StopInv'
  BY <1>2, <1>3, <1>5, Zenon DEF StopInv, InFlight, Sending
<1>. QED  BY <1>4, <1>6, Zenon DEF ProcessInv

\* Shutdown: the token once no request is left, then the joins.
LEMMA StoppingKeepsInv ==
  ASSUME ProcessInv, CancelTasks \/ Join \/ StopCleanly
  PROVE  ProcessInv'
<1>1. /\ UNCHANGED <<manager, failOpen, request, answer, total, decisions, logged>>
      /\ manager \in BOOLEAN /\ StopInv /\ PathInv
      /\ pushing' = pushing \/ pushing' = [s \in Statuses |-> 0]
      /\ pushing \in [Statuses -> Nat] /\ logged \in [Statuses -> Nat]
  BY Zenon DEF CancelTasks, Join, StopCleanly, config, requestVars, ProcessInv, PathInv, PathTypes
<1>2. PathInv'
  <2>1. /\ pushing' \in [Statuses -> Nat] /\ logged' \in [Statuses -> Nat]
        /\ \A s \in Statuses : logged'[s] + pushing'[s] <= logged[s] + pushing[s]
    BY <1>1
  <2>. QED  BY <1>1, <2>1, PathStays, Zenon
<1>3. CASE CancelTasks
  <2>1. /\ pc = "serve" /\ pc' = "join" /\ cancelled' /\ joining' = JoinHandles
        /\ \A r \in Slots : ~InFlight(r) /\ ~Sending(r)
    BY <1>3, Zenon DEF CancelTasks, Drained
  <2>2. /\ task' \in [Tasks -> TaskStates]
        /\ \A t \in Tasks : task[t] = "none" => task'[t] = "none"
    BY <1>3, Zenon DEF CancelTasks
  <2>3. \A t \in Tasks : Running(t)' => task[t] # "none"
    BY <2>2 DEF Running
  <2>4. joining' \in Seq(Tasks) /\ \A t \in Tasks : Running(t)' => Holds(joining', t)
    BY <2>1, <2>3, JoinsAll, Zenon
  <2>. QED  BY <1>1, <1>2, <2>1, <2>2, <2>4, Zenon DEF ProcessInv, StopInv, Holds, InFlight, Sending
<1>4. CASE Join
  <2>1. /\ pc = "join" /\ joining # <<>> /\ task[Head(joining)] = "ended" /\ joining' = Tail(joining)
        /\ UNCHANGED <<pc, task, cancelled>>
    BY <1>4, Zenon DEF Join
  <2>2. joining' \in Seq(Tasks)
    BY <1>1, <2>1 DEF StopInv
  <2>3. \A t \in Tasks : Running(t) => Holds(joining', t)
    <3>1. PICK s \in Seq(Tasks) : s = joining
      BY <1>1, Zenon DEF StopInv
    <3>2. \A t \in Tasks : Running(t) => Holds(s, t) /\ t # Head(s)
      BY <1>1, <2>1, <3>1 DEF StopInv, Holds, Running
    <3>. QED  BY <2>1, <3>1, <3>2, HoldsTail, Zenon
  <2>. QED  BY <1>1, <1>2, <2>1, <2>2, <2>3, Zenon DEF ProcessInv, StopInv, Holds, InFlight, Sending, Running
<1>5. CASE StopCleanly
  <2>1. /\ pc = "join" /\ joining = <<>> /\ pc' = "stopped" /\ UNCHANGED <<task, joining, cancelled>>
    BY <1>5, Zenon DEF StopCleanly
  <2>2. \A t \in Tasks : ~Running(t)
    BY <1>1, <2>1 DEF StopInv
  <2>. QED  BY <1>1, <1>2, <2>1, <2>2, Zenon DEF ProcessInv, StopInv, InFlight, Sending, Running
<1>. QED  BY <1>3, <1>4, <1>5, Zenon

\* The invariant of the process is inductive.
LEMMA ProcessStep == ProcessInv /\ [Next]_vars => ProcessInv'
<1>. SUFFICES ASSUME ProcessInv, [Next]_vars PROVE ProcessInv'
  OBVIOUS
<1>1. CASE UNCHANGED vars
  <2>1. /\ UNCHANGED <<requestVars, request, answer, manager, failOpen, pc, task, joining, cancelled>>
        /\ manager \in BOOLEAN
    BY <1>1, Zenon DEF vars, config, mainVars, requestVars, ProcessInv, PathInv, PathTypes
  <2>2. PathInv'
    BY <2>1, PathIdle, Zenon DEF ProcessInv
  <2>3. StopInv'
    BY <2>1, Zenon DEF ProcessInv, StopInv, InFlight, Sending, Running
  <2>. QED  BY <2>2, <2>3, Zenon DEF ProcessInv
<1>2. CASE Next
  BY <1>2, StartKeepsInv, ServingKeepsInv, PushKeepsInv, TaskKeepsInv, StoppingKeepsInv, Zenon DEF Next
<1>. QED  BY <1>1, <1>2

\* The invariant holds in every reachable state.
LEMMA ProcessAlways == Spec => []ProcessInv
BY InvInit, ProcessStep, PTL DEF Spec

\* The layers of build_app never hand out data without a key nor a 500 that nothing
\* failed for, with any number of requests in flight.
THEOREM AnswersEarned == Spec => []AnswersAreEarned
<1>1. ProcessInv => AnswersAreEarned
  BY Zenon DEF ProcessInv, PathInv
<1>. QED  BY <1>1, ProcessAlways, PTL

\* The counters of the metrics layer, the limiter and the request log agree, however
\* timeouts, panics and clients that leave cut requests short, and whatever becomes of
\* the detached pushes to the log.
THEOREM CountersFit == Spec => []CountersAgree
<1>1. ProcessInv => CountersAgree
  BY Zenon DEF ProcessInv, PathInv
<1>. QED  BY <1>1, ProcessAlways, PTL

\* main cancels the tasks after the last request and reports a clean stop after the
\* last task (main.rs), whatever was spawned.
THEOREM StopsInOrder == Spec => []StopIsOrderly
<1>1. ProcessInv => RequestsFindTheirTasks
  <2>1. "serve" \notin {"join", "stopped"}
    OBVIOUS
  <2>. QED  BY <2>1, Zenon DEF ProcessInv, StopInv, RequestsFindTheirTasks
<1>2. ProcessInv => CleanStopIsComplete
  BY Zenon DEF ProcessInv, StopInv, CleanStopIsComplete
<1>3. ProcessInv => StopIsOrderly
  BY <1>1, <1>2, Zenon DEF StopIsOrderly
<1>. QED  BY <1>3, ProcessAlways, PTL

=============================================================================
