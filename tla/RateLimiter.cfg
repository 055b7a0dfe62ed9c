SPECIFICATION LimiterSpec
CONSTANTS
  n1 = n1   n2 = n2   n3 = n3
  Nodes <- MCNodes
  WithLimiter <- MCConnected
  Offset <- MCOffset
  Limits <- MCLimits
  rest = rest   graphql = graphql
  Buckets <- MCBuckets
  Requests = {r1, r2}
  Skew = 1
  MaxDelay = 1
  NoRefillTtl = 3
  FailOpen = FALSE
  Second = 2
  MaxTime = 5
  MaxChecks = 4
  NULL = NULL
INVARIANTS
  RequestsMetered
  RetryAfterSuffices
SYMMETRY MCSymmetry
