SPECIFICATION Spec
CONSTANTS
  Users = {u1}
  KeyIds = {k1, k2}
  Tiers = {free}
  Requests = {r1}
  MaxIssued = 2
  MaxTime = 4
  Ttl = 2
  RequestTimeout = 1
  NULL = NULL
INVARIANTS
  GrantIsTheIssuedKey
  StaleGrantBounded
  UsedMeansPresented
